---- MODULE Spec2Model ----
(***************************************************************************)
(* Middleware execution engine of mkch/gear: Gear (request context),       *)
(* mwExec (chain runner), panicRecovery and the Wrap entry point, with the *)
(* Must-decoders of Gear and the access Logger middleware.                 *)
(*                                                                         *)
(* A request is a call stack of frames.  User code (MiddlewareFunc bodies  *)
(* and terminal handlers) is arbitrary, so every step it can take --       *)
(* calling next(g), calling g.Stop(), panicking, calling a nested          *)
(* Wrap-produced handler, returning -- is a nondeterministic action.  The  *)
(* engine's own code (Wrap closure, newMwExec, exec, serveMiddlewares, the *)
(* continuation closure, panicRecovery.Serve) is deterministic and is      *)
(* executed inside the action of the user step that calls it.              *)
(***************************************************************************)
EXTENDS Integers, Sequences, FiniteSets, TLC

\* ---- bounds ----
MaxMw == 3            \* longest middleware list passed to Wrap
MaxRepeat == 1        \* next(g) calls of one request beyond the first of each Serve
MaxRequests == 2      \* requests the transport delivers in one behaviour
MaxConcMw == 2        \* longest middleware list of the concurrently served handler
MaxDecodeMw == 2      \* longest middleware list of the handler whose chain decodes
MaxDecodes == 2       \* Must-decoder calls made while serving one request
MaxLogMw == 2         \* longest middleware list of the handler with a Logger
MaxHeaderKeys == 2    \* longest LoggerOptions.HeaderKeys
MaxGroups == 2        \* groups made by NewGroup and Group.Group
MaxCap == 2           \* largest capacity of a middleware slice
MaxPrefixLen == 3     \* longest prefix given to NewPathInterceptor
MaxPathLen == 4       \* longest r.URL.Path
MaxInterceptMw == 2   \* longest middleware list of the intercepted handler
MaxValidatorCalls == 4  \* calls made to package validator
MaxBodyCalls == 3     \* calls made to the body decoding of package encoding
MaxFields == 2        \* fields of the struct decodeMap decodes into
MaxValues == 2        \* longest value list of a key of url.Values
MaxNestedMw == 2      \* longest middleware list of a handler behind another one
MaxContextMw == 2     \* longest middleware list of the handler whose chain sets values
MaxContextValues == 2 \* SetContextValue calls made while serving one request

Slots == {"a", "b"}                 \* transport goroutines serving requests
PanicValues == {"boom", "some error"}
MwKinds == {"func", "recovery"}     \* MiddlewareFunc (user code) / panicRecovery
Handlers == {"top", "inner"}        \* Wrap-produced handlers of the program

NoGear == 0                         \* getGear(r) == nil
WrapperWriter == 0                  \* a ResponseWriter made by a handler, not the transport
StatusInternalServerError == 500
StatusBadRequest == 400

\* ---- Logger options and requests ----
LoggerMethodKey == "method"
LoggerHostKey == "host"
LoggerURLKey == "URL"
LoggerHeaderKey == "header"
LoggerKeys == {LoggerMethodKey, LoggerHostKey, LoggerURLKey, LoggerHeaderKey}
HeaderNames == {"X-My-Header", "User-Agent"}

\* The Must-decoders of Gear, and what a Decode call may return ("nil": no error)
Decoders == {"MustDecodeBody", "MustDecodeForm", "MustDecodeHeader", "MustDecodeQuery"}
DecodeErrors == {"nil", "EOF"}

VARIABLES
    wrapped,    \* Wrap-produced handlers: captured middlewares and handler
    gears,      \* heap of *Gear objects: [R, W, stopped]
    engines,    \* heap of *mwExec objects: [handler, middlewares, i]
    stack,      \* per transport goroutine: call stack of frames
    log,        \* per transport goroutine: events of the request it serves
    errlog,     \* records written to RawLogger
    written,    \* per response writer: status codes written to it
    outcomes,   \* how the requests delivered so far ended
    nreq,       \* number of requests delivered by the transport
    repeats,    \* per transport goroutine: repeated next(g) calls of its request
    loggerOpt,  \* the *LoggerOptions the Logger middleware was made with
    incoming,   \* what the client sends: Method, Host, URL and Header of a request
    arrays,     \* the backing arrays of the middleware slices of the program
    groups,     \* the *Group values made by NewGroup and Group.Group
    routes,     \* per Wrap-produced handler: what Group.Handle registered it with
    interceptor, \* the *PathInterceptor of the program: prefix and prefixSlash
    urlPath,    \* r.URL.Path of the request the client sends
    validator,  \* package validator: var validator Validator
    validated,  \* the calls made to package validator, with what they returned
    JSONBodyDecoder, \* package encoding: var JSONBodyDecoder BodyDecoder
    bodyDecoders,    \* package encoding: var bodyDecoders map[string]BodyDecoder
    bodyCalls,  \* the calls made to the body decoding of package encoding
    decodeArgs, \* package encoding: the values and the v of a call of decodeMap
    decodeRet   \* package encoding: what that call returned and left in *v

\* what serving a request never writes
static == <<arrays, groups, routes, interceptor, urlPath, validator, validated,
            JSONBodyDecoder, bodyDecoders, bodyCalls, decodeArgs, decodeRet>>

\* what registering routes never writes
packages == <<interceptor, urlPath, validator, validated, JSONBodyDecoder, bodyDecoders,
              bodyCalls, decodeArgs, decodeRet>>

vars == <<wrapped, gears, engines, stack, log, errlog, written, outcomes, nreq, repeats,
          loggerOpt, incoming, static>>

\* ---- helpers ----
\* seq[i] of a 0-based Go slice; an index outside of it is a run-time panic
OutOfRange == "index out of range"
At(seq, i) == IF i + 1 \in DOMAIN seq THEN seq[i + 1] ELSE OutOfRange
Last(seq) == seq[Len(seq)]
Front(seq) == SubSeq(seq, 1, Len(seq) - 1)

RECURSIVE SeqsUpTo(_, _)
SeqsUpTo(S, n) ==
    IF n = 0 THEN {<<>>}
    ELSE LET P == SeqsUpTo(S, n - 1)
         IN  P \cup {Append(p, x) : p \in {q \in P : Len(q) = n - 1}, x \in S}

\* ---- configurations the program may be built with ----
MwLists == SeqsUpTo(MwKinds, MaxMw)

\* Lists that may hold the access Logger
LogKinds == {"func", "logger"}
LogLists == SeqsUpTo(LogKinds, MaxLogMw)

\* LoggerOptions.Keys: a nil map, or a map from some of the keys to bool
NilKeys == [isNil |-> TRUE, m |-> <<>>]
KeyMaps ==
    {NilKeys} \cup
    {[isNil |-> FALSE, m |-> f] : f \in UNION {[S -> BOOLEAN] : S \in SUBSET LoggerKeys}}

\* LoggerOptions.HeaderKeys: a nil slice, or a slice of header names
NilHeaderKeys == [isNil |-> TRUE, list |-> <<>>]
HeaderKeyLists ==
    {NilHeaderKeys} \cup
    {[isNil |-> FALSE, list |-> l] : l \in SeqsUpTo(HeaderNames, MaxHeaderKeys)}

\* LoggerOptions.Attrs: nil, or a function of the request
AttrsFuncs == {"nil", "custom"}

\* The opt argument of Logger: nil, or a LoggerOptions
NilOptions ==
    [isNil |-> TRUE, Keys |-> NilKeys, HeaderKeys |-> NilHeaderKeys, Attrs |-> "nil"]
Options ==
    {NilOptions} \cup
    [isNil : {FALSE}, Keys : KeyMaps, HeaderKeys : HeaderKeyLists, Attrs : AttrsFuncs]

\* Requests a client may send
CurlRequest ==
    [Method |-> "GET", Host |-> "127.0.0.1", URL |-> "/a/b/c?x=y",
     Header |-> [h \in HeaderNames |->
                    IF h = "X-My-Header" THEN <<"v1">> ELSE <<"test/1">>]]
Requests ==
    {CurlRequest,
     [Method |-> "POST", Host |-> "localhost", URL |-> "/",
      Header |-> [h \in {"User-Agent"} |-> <<"test/2">>]]}

\* ---- Gear ----
\* The values of a request's context other than the Gear, in the order they
\* were set; the request the transport delivers has none.
NoValues == <<>>
ContextKeys == {"user", "trace"}
ContextVals == <<"v1", "v2">>
NilValue == "nil"

\* ctx.Value(key): the value set last for key, nil if none was
Value(ctx, key) ==
    LET ks == {k \in 1..Len(ctx) : ctx[k].key = key}
    IN  IF ks = {} THEN NilValue
        ELSE ctx[CHOOSE k \in ks : \A j \in ks : j <= k].val

\* A SetContextValue that starts from an empty context
SetContextValue_Fresh(g, key, val) ==
    [g EXCEPT !.R = [@ EXCEPT !.ctx = <<[key |-> key, val |-> val]>>]]

\* func (g *Gear) SetContextValue(key, val any)
\* g.R = g.R.WithContext(context.WithValue(g.R.Context(), key, val))
SetContextValue(g, key, val) ==
    [g EXCEPT !.R = [@ EXCEPT !.ctx = Append(@, [key |-> key, val |-> val])]]

\* func (g *Gear) ContextValue(key any) any
ContextValue(g, key) == Value(g.R.ctx, key)

\* A Gear that keeps the state of the Gear of the request before it
NewGear_Shared(w, r, gid) ==
    [W |-> w, R |-> [id |-> r.id, gear |-> gid, ctx |-> r.ctx],
     stopped |-> gid > 1 /\ gears[gid - 1].stopped]

\* A Gear whose request is the one the closure was called with, context unchanged
NewGear_SameRequest(w, r, gid) ==
    [W |-> w, R |-> r, stopped |-> FALSE]

\* &Gear{W: w}; g.R = r.WithContext(context.WithValue(r.Context(), ctxKey, g))
NewGear(w, r, gid) ==
    [W |-> w, R |-> [id |-> r.id, gear |-> gid, ctx |-> r.ctx], stopped |-> FALSE]

\* Stop() that leaves the flag as it was
Stop_Noop(g) == g

\* Stop() that flips the flag
Stop_Toggle(g) == [g EXCEPT !.stopped = ~@]

\* func (g *Gear) Stop()
Stop(g) == [g EXCEPT !.stopped = TRUE]

\* func getGear(r *http.Request) any
getGear(r) == r.gear

\* func G(r *http.Request) *Gear: panics if getGear(r) == nil
G(r) ==
    IF getGear(r) = NoGear THEN [panics |-> TRUE, gear |-> NoGear]
    ELSE [panics |-> FALSE, gear |-> getGear(r)]

\* ---- mwExec ----
\* newMwExec that takes up the cursor where the engine made before it left it
newMwExec_Resumed(middlewares, handler) ==
    [handler |-> handler, middlewares |-> middlewares,
     i |-> IF engines # <<>> /\ Last(engines).i >= 0 THEN Last(engines).i
           ELSE IF Len(middlewares) > 0 THEN Len(middlewares) - 1 ELSE 0]

\* newMwExec serving from the first middleware instead of the last
newMwExec_FromFirst(middlewares, handler) ==
    [handler |-> handler, middlewares |-> middlewares, i |-> 0]

\* func newMwExec(middlewares []Middleware, handler http.Handler) *mwExec
newMwExec(middlewares, handler) ==
    [handler |-> handler,
     middlewares |-> middlewares,
     i |-> IF Len(middlewares) > 0 THEN Len(middlewares) - 1 ELSE 0]

\* ---- frames and events ----
Frame(k, h, e, i, g, w, r) ==
    [k |-> k, h |-> h, e |-> e, i |-> i, g |-> g, w |-> w, r |-> r,
     nexts |-> 0, stops |-> 0, calls |-> 0]

\* An observed event of a request: what happened (t), in which engine (e), at which
\* list index (i), on which Gear (g), with g.stopped as it was then (st), and a
\* detail (x).
Event(t, e, i, g, st, x) == [t |-> t, e |-> e, i |-> i, g |-> g, st |-> st, x |-> x]

\* m.middlewares[m.i].Serve(g, func(g *Gear) {...}): the frame of the Serve call
ServeFrame(m, e, gid) ==
    Frame(At(m.middlewares, m.i), m.handler, e, m.i, gid, 0,
          [id |-> 0, gear |-> NoGear, ctx |-> NoValues])

\* m.handler.ServeHTTP(g.W, g.R): the frame of the terminal handler
HandlerFrame(m, e, g) ==
    Frame("handler", m.handler, e, 0 - 1, getGear(g.R), g.W, g.R)

\* func (m *mwExec) serveMiddlewares(g *Gear): what the call pushes and records
serveMiddlewares(m, e, gid, g) ==
    [push |-> <<ServeFrame(m, e, gid)>>,
     events |-> <<Event("enter", e, m.i, gid, g.stopped, At(m.middlewares, m.i))>>]

callHandler(m, e, g) ==
    [push |-> <<HandlerFrame(m, e, g)>>,
     events |-> <<Event("H", e, 0 - 1, getGear(g.R), g.stopped, m.handler)>>]

\* exec without its check of g.stopped
exec_Unchecked(m, e, gid, g) ==
    IF Len(m.middlewares) = 0 THEN callHandler(m, e, g)
    ELSE serveMiddlewares(m, e, gid, g)

\* exec with the check of g.stopped made only on the way into serveMiddlewares
exec_CheckInServe(m, e, gid, g) ==
    IF Len(m.middlewares) = 0 THEN callHandler(m, e, g)
    ELSE IF g.stopped THEN [push |-> <<>>, events |-> <<>>]
    ELSE serveMiddlewares(m, e, gid, g)

\* exec that does nothing for an empty list
exec_EmptyReturns(m, e, gid, g) ==
    IF g.stopped \/ Len(m.middlewares) = 0 THEN [push |-> <<>>, events |-> <<>>]
    ELSE serveMiddlewares(m, e, gid, g)

\* func (m *mwExec) exec(g *Gear)
exec(m, e, gid, g) ==
    IF g.stopped THEN [push |-> <<>>, events |-> <<>>]
    ELSE IF Len(m.middlewares) = 0 THEN callHandler(m, e, g)
    ELSE serveMiddlewares(m, e, gid, g)

\* A continuation that does nothing once the cursor is below the list
next_Exhausted(m, e, gid, g) ==
    IF g.stopped \/ m.i < 0 THEN [m |-> m, push |-> <<>>, events |-> <<>>]
    ELSE LET m2 == [m EXCEPT !.i = @ - 1]
             x == IF m2.i >= 0 THEN serveMiddlewares(m2, e, gid, g)
                  ELSE callHandler(m2, e, g)
         IN  [m |-> m2, push |-> x.push, events |-> x.events]

\* A continuation that takes each middleware off the list once it has served
next_Consuming(m, e, gid, g) ==
    IF g.stopped THEN [m |-> m, push |-> <<>>, events |-> <<>>]
    ELSE LET m2 == [m EXCEPT !.i = @ - 1, !.middlewares = SubSeq(@, 1, m.i)]
             x == IF m2.i >= 0 THEN serveMiddlewares(m2, e, gid, g)
                  ELSE callHandler(m2, e, g)
         IN  [m |-> m2, push |-> x.push, events |-> x.events]

\* The continuation without its check of g.stopped
next_Unchecked(m, e, gid, g) ==
    LET m2 == [m EXCEPT !.i = @ - 1]
        x == IF m2.i >= 0 THEN serveMiddlewares(m2, e, gid, g)
             ELSE callHandler(m2, e, g)
    IN  [m |-> m2, push |-> x.push, events |-> x.events]

\* The continuation without its test of the cursor: it always serves middlewares
next_Unfloored(m, e, gid, g) ==
    IF g.stopped THEN [m |-> m, push |-> <<>>, events |-> <<>>]
    ELSE LET m2 == [m EXCEPT !.i = @ - 1]
             x == serveMiddlewares(m2, e, gid, g)
         IN  [m |-> m2, push |-> x.push, events |-> x.events]

\* The continuation closure handed to Serve by serveMiddlewares:
\* func(g *Gear) { if g.stopped { return }; m.i--; if m.i >= 0 {...} else {...} }
next(m, e, gid, g) ==
    IF g.stopped THEN [m |-> m, push |-> <<>>, events |-> <<>>]
    ELSE LET m2 == [m EXCEPT !.i = @ - 1]
             x == IF m2.i >= 0 THEN serveMiddlewares(m2, e, gid, g)
                  ELSE callHandler(m2, e, g)
         IN  [m |-> m2, push |-> x.push, events |-> x.events]

\* ---- Wrap ----
\* A Wrap closure that never finds a Gear in the request
carriesGear_Never(r) == FALSE

\* if val := getGear(r); val != nil
carriesGear(r) == getGear(r) # NoGear

\* One Gear made for the first request and shared by all later ones
NewGearId_Shared == IF gears = <<>> THEN Len(gears) + 1 ELSE Len(gears)

\* g = &Gear{W: w}: each call of the closure allocates a Gear of its own
NewGearId == Len(gears) + 1

\* The http.HandlerFunc returned by Wrap(handler, middlewares...), called with (w, r):
\* the Gear it serves with, the heaps after it allocated, and what exec started.
WrapCall(h, w, r) ==
    LET fresh == ~carriesGear(r)
        gid == IF fresh THEN NewGearId ELSE getGear(r)
        gs == IF ~fresh THEN gears
              ELSE IF gid > Len(gears) THEN Append(gears, NewGear(w, r, gid))
              ELSE [gears EXCEPT ![gid] = NewGear(w, r, gid)]
        m == newMwExec(wrapped[h].middlewares, wrapped[h].handler)
        e == Len(engines) + 1
        x == exec(m, e, gid, gs[gid])
    IN  [gears |-> gs,
         engines |-> Append(engines, m),
         push |-> IF x.push = <<>> THEN <<>>
                  ELSE <<Frame("wrap", h, e, m.i, gid, w, r)>> \o x.push,
         events |-> <<Event("wrap", e, m.i, gid, gs[gid].stopped,
                            IF fresh THEN "fresh" ELSE "reused")>> \o x.events]

\* A call returned to its caller: exec and the Wrap closure have no code after
\* the chain, so a Wrap closure on top of the stack returns as well.
Unwind(stk) ==
    IF stk # <<>> /\ Last(stk).k = "wrap" THEN Front(stk) ELSE stk

\* The request of goroutine s is over when its stack is empty.
Finish(stk, how) ==
    IF stk = <<>> THEN Append(outcomes, how) ELSE outcomes

\* ---- panicRecovery ----
\* An engine that recovers by itself, in the Wrap closure at the bottom of the stack
RecoveryAt_Engine(stk) == IF stk = <<>> THEN 0 ELSE 1

\* A panicRecovery whose Serve has no deferred recover()
RecoveryAt_None(stk) == 0

\* The innermost panicRecovery.Serve on the stack: the deferred function that recovers.
RecoveryAt(stk) ==
    LET ks == {k \in 1..Len(stk) : stk[k].k = "recovery"}
    IN  IF ks = {} THEN 0 ELSE CHOOSE k \in ks : \A j \in ks : j <= k

\* RawLogger.LogAttrs(ctx, slog.LevelError, "recovered from panic", slog.Any("value", v))
RecoveryRecord(v) ==
    [level |-> "ERROR", msg |-> "recovered from panic", value |-> v]

\* The deferred function without its g.Stop()
Recovered_NoStop(g, v) ==
    [errlog |-> Append(errlog, RecoveryRecord(v)),
     written |-> [written EXCEPT ![g.W] = Append(@, StatusInternalServerError)],
     gear |-> g]

\* defer func() { v := recover(); if v != nil { log; g.Code(500); g.Stop() } }()
Recovered(g, v) ==
    [errlog |-> Append(errlog, RecoveryRecord(v)),
     written |-> [written EXCEPT ![g.W] = Append(@, StatusInternalServerError)],
     gear |-> Stop(g)]

\* ---- Logger ----
\* A slog.Attr; the members of a slog.Group carry the key of the group.
Attr(group, key, value) == [group |-> group, key |-> key, value |-> value]

\* A lookup that takes a key for selected as soon as it is in the map
Lookup_Present(keys, key) == key \in DOMAIN keys.m

\* opt.Keys[key]: a key that is not in the map reads as false
Lookup(keys, key) == key \in DOMAIN keys.m /\ keys.m[key]

\* g.R.Header[key]: a header that is not in the request reads as nil
HeaderValue(r, key) == IF key \in DOMAIN r.Header THEN r.Header[key] ELSE <<>>

\* What opt.Attrs(g.R) returns for the custom function
CustomAttrs(r) == <<Attr("", "path", <<r.URL>>), Attr("", "verb", <<r.Method>>)>>

\* The default values and the "values in options" of Logger
LoggerSelection(opt) ==
    LET useKeys == ~opt.isNil /\ ~opt.Keys.isNil
        logHeader == IF useKeys THEN Lookup(opt.Keys, LoggerHeaderKey) ELSE TRUE
    IN  [logMethod |-> IF useKeys THEN Lookup(opt.Keys, LoggerMethodKey) ELSE TRUE,
         logHost |-> IF useKeys THEN Lookup(opt.Keys, LoggerHostKey) ELSE TRUE,
         logURL |-> IF useKeys THEN Lookup(opt.Keys, LoggerURLKey) ELSE TRUE,
         headerKeys |-> IF ~opt.isNil /\ logHeader /\ ~opt.HeaderKeys.isNil
                        THEN opt.HeaderKeys.list ELSE <<>>]

\* The attrs slice Logger builds from its selection
SelectedAttrs(sel, r) ==
    LET a1 == IF sel.logMethod THEN <<Attr("", LoggerMethodKey, <<r.Method>>)>> ELSE <<>>
        a2 == IF sel.logHost THEN Append(a1, Attr("", LoggerHostKey, <<r.Host>>)) ELSE a1
        a3 == IF sel.logURL THEN Append(a2, Attr("", LoggerURLKey, <<r.URL>>)) ELSE a2
    IN  IF Len(sel.headerKeys) > 0
        THEN a3 \o [k \in 1..Len(sel.headerKeys) |->
                       Attr(LoggerHeaderKey, sel.headerKeys[k],
                            HeaderValue(r, sel.headerKeys[k]))]
        ELSE a3

\* A Logger that looks at Keys and HeaderKeys whether or not Attrs is set
LoggerAttrs_IgnoresAttrs(opt, r) == SelectedAttrs(LoggerSelection(opt), r)

\* The attributes of the record Logger(opt) writes for request r
LoggerAttrs(opt, r) ==
    IF ~opt.isNil /\ opt.Attrs # "nil" THEN CustomAttrs(r)
    ELSE SelectedAttrs(LoggerSelection(opt), r)

\* RawLogger.LogAttrs(context.Background(), slog.LevelInfo, "HTTP", attrs...)
LoggerRecord(attrs) == [level |-> "INFO", msg |-> "HTTP", attrs |-> attrs]

\* ---- decoding ----
\* logImpl(slog.LevelError, "", "err", err), as called by LogIfErr
ErrRecord(err) == [level |-> "ERROR", msg |-> "", value |-> err]

\* func LogIfErr(err error) error: the records of RawLogger after the call
LogIfErr(err) == IF err # "nil" THEN Append(errlog, ErrRecord(err)) ELSE errlog

\* g.DecodeBody / DecodeForm / DecodeHeader / DecodeQuery, given what ParseForm
\* and the encoding package return: the error returned and the records logged.
\* Only DecodeForm calls ParseForm, and it logs its error and goes on.
Decode(which, parseErr, decErr) ==
    [err |-> decErr,
     errlog |-> IF which = "MustDecodeForm" THEN LogIfErr(parseErr) ELSE errlog]

\* mustDecode that answers 400 but does not stop the chain
mustDecode_NoStop(g, d) ==
    IF d.err # "nil"
    THEN [err |-> d.err,
          written |-> [written EXCEPT ![g.W] = Append(@, StatusBadRequest)],
          gear |-> g]
    ELSE [err |-> d.err, written |-> written, gear |-> g]

\* func mustDecode(g *Gear, f func(g *Gear, v any) (err error), v any) (err error),
\* d being what f(g, v) did
mustDecode(g, d) ==
    IF d.err # "nil"
    THEN [err |-> d.err,
          written |-> [written EXCEPT ![g.W] = Append(@, StatusBadRequest)],
          gear |-> Stop(g)]
    ELSE [err |-> d.err, written |-> written, gear |-> g]

\* ---- Group ----
\* A middleware slice is a window [arr, len, cap] on a backing array; the nil
\* slice has no array. An element is named by who supplied it.
NilSlice == [arr |-> 0, len |-> 0, cap |-> 0]
NoMw == [o |-> "none", id |-> 0]
Elems(as, sl) == IF sl.len = 0 THEN <<>> ELSE SubSeq(as[sl.arr], 1, sl.len)

\* append(sl, xs...): within the capacity of sl the elements are stored into
\* the array of sl; otherwise into a new array that holds a copy of sl.
append(as, sl, xs) ==
    IF sl.len + Len(xs) <= sl.cap
    THEN [arrays |-> IF xs = <<>> THEN as
                     ELSE [as EXCEPT ![sl.arr] =
                              [k \in 1..Len(@) |->
                                  IF k > sl.len /\ k <= sl.len + Len(xs)
                                  THEN xs[k - sl.len] ELSE @[k]]],
          slice |-> [sl EXCEPT !.len = sl.len + Len(xs)]]
    ELSE [arrays |-> Append(as, Elems(as, sl) \o xs),
          slice |-> [arr |-> Len(as) + 1, len |-> sl.len + Len(xs),
                     cap |-> sl.len + Len(xs)]]

\* What a caller passes for a variadic middlewares parameter: nothing (the nil
\* slice), one middleware written in the call (a new array of exactly that
\* length), or the slice the program keeps in a variable, spread with "...".
ArgKinds == {"none", "literal", "spread"}
SharedSlice == [arr |-> 1, len |-> 1, cap |-> Len(arrays[1])]
Args(kind, tag) ==
    IF kind = "none" THEN [arrays |-> arrays, slice |-> NilSlice]
    ELSE IF kind = "literal"
    THEN [arrays |-> Append(arrays, <<tag>>),
          slice |-> [arr |-> Len(arrays) + 1, len |-> 1, cap |-> 1]]
    ELSE [arrays |-> arrays, slice |-> SharedSlice]

\* No group exists and no handler is registered; the program's own slice holds
\* one middleware in an array of the given capacity.
Ungrouped(capacity) ==
    /\ arrays = <<[k \in 1..capacity |-> IF k = 1 THEN [o |-> "shared", id |-> 0] ELSE NoMw]>>
    /\ groups = <<>>
    /\ routes = [h \in Handlers |-> [registered |-> FALSE, slice |-> NilSlice,
                                     group |-> 0, own |-> <<>>]]
NoGroups == Ungrouped(1)

\* ---- PathInterceptor ----
\* Strings are sequences of one-character strings.
HasPrefix(str, prefix) ==
    Len(prefix) <= Len(str) /\ SubSeq(str, 1, Len(prefix)) = prefix
HasSuffix(str, suffix) ==
    Len(suffix) <= Len(str) /\ SubSeq(str, Len(str) - Len(suffix) + 1, Len(str)) = suffix

\* the elements of a path: what stands between its slashes
RECURSIVE Split(_)
Split(p) ==
    IF \A k \in 1..Len(p) : p[k] # "/" THEN <<p>>
    ELSE LET k == CHOOSE k \in 1..Len(p) : p[k] = "/" /\ \A j \in 1..(k - 1) : p[j] # "/"
         IN  <<SubSeq(p, 1, k - 1)>> \o Split(SubSeq(p, k + 1, Len(p)))

RECURSIVE Join(_)
Join(elems) ==
    IF elems = <<>> THEN <<>>
    ELSE IF Len(elems) = 1 THEN elems[1]
    ELSE elems[1] \o <<"/">> \o Join(Tail(elems))

\* path.Clean on the elements still to read, with the elements kept so far:
\* empty and "." elements go, ".." removes the element before it, and a ".."
\* with nothing to remove goes in a rooted path and stays in a relative one.
RECURSIVE Resolve(_, _, _)
Resolve(elems, out, rooted) ==
    IF elems = <<>> THEN out
    ELSE LET el == elems[1]
             rest == Tail(elems)
         IN  IF el = <<>> \/ el = <<".">> THEN Resolve(rest, out, rooted)
             ELSE IF el = <<".", ".">>
             THEN IF out # <<>> /\ Last(out) # <<".", ".">>
                  THEN Resolve(rest, Front(out), rooted)
                  ELSE IF rooted THEN Resolve(rest, out, rooted)
                  ELSE Resolve(rest, Append(out, el), rooted)
             ELSE Resolve(rest, Append(out, el), rooted)

\* path.Clean(p)
Clean(p) ==
    IF p = <<>> THEN <<".">>
    ELSE LET rooted == p[1] = "/"
             out == Resolve(Split(p), <<>>, rooted)
         IN  IF rooted THEN <<"/">> \o Join(out)
             ELSE IF out = <<>> THEN <<".">>
             ELSE Join(out)

\* NewPathInterceptor that always appends the slash
NewPathInterceptor_AlwaysSlash(prefix) ==
    [given |-> prefix, prefix |-> Clean(prefix), prefixSlash |-> Clean(prefix) \o <<"/">>]

\* NewPathInterceptor(prefix, handler); given keeps the prefix as it was passed
NewPathInterceptor(prefix) ==
    LET cleaned == Clean(prefix)
    IN  [given |-> prefix,
         prefix |-> cleaned,
         prefixSlash |-> IF HasSuffix(cleaned, <<"/">>) THEN cleaned
                         ELSE cleaned \o <<"/">>]

\* The condition of PathInterceptor.Serve
Intercepts(m, p) == p = m.prefix \/ HasPrefix(p, m.prefixSlash)

NoInterceptor ==
    /\ interceptor = NewPathInterceptor(<<"/">>)
    /\ urlPath = <<"/">>

\* ---- package validator ----
\* A Validator is nil or one of two implementations: v1 finds fault with the
\* struct "bad", v2 with every struct.
NilValidator == "nil"
Validators == {"v1", "v2"}
Structs == {"good", "bad"}
Verdict(v, st) ==
    IF v = "v2" THEN "v2: invalid"
    ELSE IF st = "bad" THEN "v1: invalid" ELSE "nil"

\* What a call returned: a bool and an error where it has them, or a panic.
Returned(ok, err) == [panicked |-> FALSE, ok |-> ok, err |-> err]
Panicked == [panicked |-> TRUE, ok |-> FALSE, err |-> "nil"]
Call(op, arg, ret) == [op |-> op, arg |-> arg, ret |-> ret]

NoValidator ==
    /\ validator = NilValidator
    /\ validated = <<>>

\* ---- package encoding: body decoders ----
MIME_JSON == "application/json"
MIME_XML == "application/xml"
MIME_TEXT_XML == "text/xml"
\* Content-Type values of requests and of registrations
ContentTypes == {MIME_JSON, MIME_XML, MIME_TEXT_XML, "text/plain",
                 "application/json; charset=utf-8"}

\* A BodyDecoder is nil, one of the two built-in ones, or one of the program's own
\* that returns its own error whatever the body is.
NilDecoder == "nil"
BuiltinJSON == "json"
BuiltinXML == "xml"
BodyDecoderValues == {BuiltinJSON, BuiltinXML, "custom"}
Bodies == {"{}", "<a/>"}

Err(kind, value) == [kind |-> kind, value |-> value]
NilErr == Err("nil", "")
UnknownMIMEError(mime) == Err("UnknownMIMEError", mime)

\* decoder.DecodeBody(body, v)
DecoderErr(decoder, body) ==
    IF decoder = BuiltinJSON
    THEN IF body = "{}" THEN NilErr ELSE Err("json", "invalid character")
    ELSE IF decoder = BuiltinXML
    THEN IF body = "<a/>" THEN NilErr ELSE Err("xml", "EOF")
    ELSE Err("custom", decoder)

\* func selectBodyDecoder(r *http.Request) (decoder BodyDecoder, err error),
\* with mime the value of r.Header.Get("Content-Type")
selectBodyDecoder(mime) ==
    LET decoder == bodyDecoders[mime]
    IN  [decoder |-> decoder,
         err |-> IF decoder = NilDecoder THEN UnknownMIMEError(mime) ELSE NilErr]

\* The package after its initialization: the map holds the values the variables
\* JSONBodyDecoder and XMLBodyDecoder had when the map was made.
EncodingInitialized ==
    /\ JSONBodyDecoder = BuiltinJSON
    /\ bodyDecoders = [mime \in ContentTypes |->
                          IF mime = MIME_JSON THEN BuiltinJSON
                          ELSE IF mime \in {MIME_XML, MIME_TEXT_XML} THEN BuiltinXML
                          ELSE NilDecoder]
    /\ bodyCalls = <<>>

\* ---- package encoding: the default map decoder ----
\* The strings a key of url.Values may hold, and the keys the values may have.
Strs == {"1", "0", "x"}
ValueLists == SeqsUpTo(Strs, MaxValues)
MapKeys == {"K", "k"}

\* url.Values: per key, whether the map has it, and its list of strings.
Absent == [has |-> FALSE, list |-> <<>>]
Present(list) == [has |-> TRUE, list |-> list]
Values == {[key \in MapKeys |-> IF key = one THEN Present(list) ELSE Absent] :
              one \in MapKeys, list \in ValueLists}
          \cup {[key \in MapKeys |-> Absent]}
Has(values, key) == key \in DOMAIN values /\ values[key].has

\* strconv.ParseInt(str, 0, bits) and strconv.ParseBool(str) on Strs and ""
ParseInt(str) ==
    IF str = "1" THEN [ok |-> TRUE, n |-> 1]
    ELSE IF str = "0" THEN [ok |-> TRUE, n |-> 0]
    ELSE [ok |-> FALSE, n |-> 0]
ParseBool(str) ==
    IF str = "1" THEN [ok |-> TRUE, b |-> TRUE]
    ELSE IF str = "0" THEN [ok |-> TRUE, b |-> FALSE]
    ELSE [ok |-> FALSE, b |-> FALSE]

\* func parseFormBool(str string) bool
parseFormBool(str) ==
    LET p == ParseBool(str)
    IN  IF p.ok THEN p.b ELSE TRUE

\* The value of a struct field; only the component of the field's kind is used.
\* isNil tells whether a pointer field is nil.
FieldKinds == {"string", "int", "bool", "[]string", "[]int", "*int"}
ZeroValue == [isNil |-> TRUE, int |-> 0, str |-> "", bool |-> FALSE,
              strs |-> <<>>, ints |-> <<>>]
SetValue ==
    [ZeroValue EXCEPT !.isNil = FALSE, !.int = 7, !.str = "old", !.bool = TRUE,
                      !.strs = <<"old">>, !.ints = <<7>>]

\* reflect.StructField with the value the field has in *v
FieldNames == {"K", "u"}
Tags == {"", "-", "k"}
IsExported(field) == field.name = "K"
StructFields ==
    [name : FieldNames, tag : Tags, anonymous : BOOLEAN, kind : FieldKinds,
     val : {ZeroValue, SetValue}]
RECURSIVE DistinctNames(_)
DistinctNames(fields) ==
    \/ fields = <<>>
    \/ /\ \A i \in 2..Len(fields) : fields[i].name # fields[1].name
       /\ DistinctNames(Tail(fields))
StructTypes == {fields \in SeqsUpTo(StructFields, MaxFields) : DistinctNames(fields)}

\* *map[string][]string: nil, or a map that may have keys values does not have
DestKeys == MapKeys \cup {"z"}
NilMap == [isNil |-> TRUE, entries |-> [key \in DestKeys |-> Absent]]
Maps == {NilMap,
         [isNil |-> FALSE, entries |-> [key \in DestKeys |-> Absent]],
         [isNil |-> FALSE,
          entries |-> [key \in DestKeys |->
                          IF key \in {"z", "k"} THEN Present(<<"old">>) ELSE Absent]]}

\* The argument v of decodeMap
Dests ==
    {[kind |-> "struct", fields |-> fields, m |-> NilMap] : fields \in StructTypes}
    \cup {[kind |-> "map", fields |-> <<>>, m |-> m] : m \in Maps}
    \cup {[kind |-> kind, fields |-> <<>>, m |-> NilMap] :
             kind \in {"nil", "nonpointer", "nilpointer", "*int"}}

\* The loop of case reflect.Slice: the elements are appended to s, which starts
\* as the slice the field holds.
RECURSIVE AppendStrings(_, _)
AppendStrings(s, values) ==
    IF values = <<>> THEN s
    ELSE AppendStrings(Append(s, Head(values)), Tail(values))

RECURSIVE AppendInts(_, _)
AppendInts(s, values) ==
    IF values = <<>> THEN [ok |-> TRUE, s |-> s]
    ELSE LET p == ParseInt(Head(values))
         IN  IF p.ok THEN AppendInts(Append(s, p.n), Tail(values))
             ELSE [ok |-> FALSE, s |-> s]

\* func parseMapValue(values []string, dest reflect.Value) *DecodeFieldError
\* ok is "returned nil"; val is what dest holds afterwards.
parseMapValue(values, kind, dest) ==
    LET value == IF Len(values) > 0 THEN values[1] ELSE ""
        n == ParseInt(value)
        ints == AppendInts(dest.ints, values)
    IN  CASE kind = "*int" ->
               IF n.ok THEN [ok |-> TRUE, val |-> [dest EXCEPT !.isNil = FALSE, !.int = n.n]]
               ELSE [ok |-> FALSE, val |-> dest]
          [] kind = "[]string" ->
               [ok |-> TRUE, val |-> [dest EXCEPT !.strs = AppendStrings(dest.strs, values)]]
          [] kind = "[]int" ->
               IF ints.ok THEN [ok |-> TRUE, val |-> [dest EXCEPT !.ints = ints.s]]
               ELSE [ok |-> FALSE, val |-> dest]
          [] kind = "bool" ->
               [ok |-> TRUE, val |-> [dest EXCEPT !.bool = parseFormBool(value)]]
          [] kind = "int" ->
               IF n.ok THEN [ok |-> TRUE, val |-> [dest EXCEPT !.int = n.n]]
               ELSE [ok |-> FALSE, val |-> dest]
          [] kind = "string" ->
               [ok |-> TRUE, val |-> [dest EXCEPT !.str = value]]

\* var key string = gg.If(tag != "", tag, field.Name)
KeyOf(field) == IF field.tag # "" THEN field.tag ELSE field.name

\* The fields the loop of decodeMap passes over
Skipped(values, field) ==
    \/ ~IsExported(field) \/ field.anonymous
    \/ field.tag = "-"
    \/ ~Has(values, KeyOf(field))

\* The loop of decodeMap over the fields from the i-th on: the first field
\* that does not convert ends it.
RECURSIVE Fields(_, _, _)
Fields(values, fields, i) ==
    IF i > Len(fields) THEN [err |-> "nil", fields |-> fields]
    ELSE IF Skipped(values, fields[i]) THEN Fields(values, fields, i + 1)
    ELSE LET r == parseMapValue(values[KeyOf(fields[i])].list, fields[i].kind,
                                fields[i].val)
         IN  IF r.ok THEN Fields(values, [fields EXCEPT ![i].val = r.val], i + 1)
             ELSE [err |-> "DecodeFieldError", fields |-> fields]

\* maps.Copy(*p, values)
Copy(entries, values) ==
    [key \in DOMAIN entries |-> IF Has(values, key) THEN values[key] ELSE entries[key]]

\* func decodeMap(values url.Values, v any) error
\* err is the error returned, v is what v points to afterwards.
decodeMap(values, v) ==
    IF v.kind \in {"nil", "nonpointer"} THEN [err |-> "InvalidDecodeError", v |-> v]
    ELSE IF v.kind = "nilpointer" THEN [err |-> "DecodeAddressError", v |-> v]
    ELSE IF v.kind = "map"
    THEN [err |-> "nil",
          v |-> [v EXCEPT !.m = [isNil |-> FALSE, entries |-> Copy(v.m.entries, values)]]]
    ELSE IF v.kind # "struct" THEN [err |-> "DecodeTypeError", v |-> v]
    ELSE LET r == Fields(values, v.fields, 1)
         IN  [err |-> r.err, v |-> [v EXCEPT !.fields = r.fields]]

\* No call of the map decoder is modelled.
NoCall == [values |-> [key \in MapKeys |-> Absent],
           v |-> [kind |-> "nil", fields |-> <<>>, m |-> NilMap]]
NotReturned == [done |-> FALSE, err |-> "nil", v |-> NoCall.v]
NoMapDecoding == decodeArgs = NoCall /\ decodeRet = NotReturned

\* The parts of the program that only some programs have are left out.
Bare == NoGroups /\ NoInterceptor /\ NoValidator /\ EncodingInitialized /\ NoMapDecoding

\* ---- state ----
\* The program as built: the top handler (the one the transport calls) wraps a
\* mux that may dispatch to the inner Wrap-produced handler, or a leaf handler.
Built(maxTop, maxInner, topHandlers) ==
    /\ wrapped \in [Handlers -> [middlewares : MwLists, handler : {"mux", "leaf"}]]
    /\ wrapped["top"].handler \in topHandlers
    /\ Len(wrapped["top"].middlewares) <= maxTop
    /\ wrapped["inner"].handler = "leaf"
    /\ Len(wrapped["inner"].middlewares) <= maxInner
    /\ gears = <<>>
    /\ engines = <<>>
    /\ stack = [s \in Slots |-> <<>>]
    /\ log = [s \in Slots |-> <<>>]
    /\ errlog = <<>>
    /\ written = [w \in 1..MaxRequests |-> <<>>]
    /\ outcomes = <<>>
    /\ nreq = 0
    /\ repeats = [s \in Slots |-> 0]
    /\ loggerOpt = NilOptions
    /\ incoming = CurlRequest
    /\ Bare

Init == Built(MaxMw, 1, {"mux"})

Top(s) == Last(stack[s])
Running(s) == stack[s] # <<>>
SetTop(stk, f) == [stk EXCEPT ![Len(stk)] = f]

\* The transport calls the top Wrap-produced handler with a new request.
StartRequest(s, maxReq) ==
    /\ ~Running(s)
    /\ nreq < maxReq
    /\ LET c == WrapCall("top", nreq + 1, [id |-> nreq + 1, gear |-> NoGear, ctx |-> NoValues])
       IN  /\ gears' = c.gears
           /\ engines' = c.engines
           /\ stack' = [stack EXCEPT ![s] = c.push]
           /\ log' = [log EXCEPT ![s] = c.events]
           /\ outcomes' = Finish(c.push, "returned")
    /\ nreq' = nreq + 1
    /\ repeats' = [repeats EXCEPT ![s] = 0]
    /\ UNCHANGED <<static, wrapped, loggerOpt, incoming, errlog, written>>

\* The running Serve calls next(g).
CallNext(s, maxRepeat) ==
    /\ Running(s)
    /\ Top(s).k \in MwKinds
    /\ Top(s).nexts > 0 => Top(s).k = "func" /\ repeats[s] < maxRepeat
    /\ repeats' = [repeats EXCEPT ![s] = IF Top(s).nexts > 0 THEN @ + 1 ELSE @]
    /\ LET f == Top(s)
           g == gears[f.g]
           c == next(engines[f.e], f.e, f.g, g)
       IN  /\ engines' = [engines EXCEPT ![f.e] = c.m]
           /\ stack' = [stack EXCEPT ![s] =
                            SetTop(@, [f EXCEPT !.nexts = @ + 1]) \o c.push]
           /\ log' = [log EXCEPT ![s] =
                            Append(@, Event("next", f.e, f.i, f.g, g.stopped, f.k)) \o c.events]
    /\ UNCHANGED <<static, wrapped, loggerOpt, incoming, gears, errlog, written, outcomes, nreq>>

\* A Stop() that also abandons the calls in progress, ending the request at once
CallStop_Unwind(s) ==
    /\ Running(s)
    /\ Top(s).k \in {"func", "handler"}
    /\ Top(s).stops = 0
    /\ LET f == Top(s)
       IN  /\ gears' = [gears EXCEPT ![f.g] = Stop(@)]
           /\ stack' = [stack EXCEPT ![s] = <<>>]
           /\ log' = [log EXCEPT ![s] =
                            Append(@, Event("stop", f.e, f.i, f.g, gears[f.g].stopped, f.k))]
           /\ outcomes' = Append(outcomes, "returned")
    /\ UNCHANGED <<static, wrapped, loggerOpt, incoming, engines, errlog, written, nreq, repeats>>

\* The running user code (a MiddlewareFunc or the terminal handler) calls g.Stop().
CallStop(s) ==
    /\ Running(s)
    /\ Top(s).k \in {"func", "handler"}
    /\ Top(s).stops = 0
    /\ LET f == Top(s)
       IN  /\ gears' = [gears EXCEPT ![f.g] = Stop(@)]
           /\ stack' = [stack EXCEPT ![s] = SetTop(@, [f EXCEPT !.stops = @ + 1])]
           /\ log' = [log EXCEPT ![s] =
                            Append(@, Event("stop", f.e, f.i, f.g, gears[f.g].stopped, f.k))]
    /\ UNCHANGED <<static, wrapped, loggerOpt, incoming, engines, errlog, written, outcomes, nreq, repeats>>

\* A return that marks the request stopped when the Serve never called next(g)
Return_Stops(s) ==
    /\ Running(s)
    /\ Top(s).k \in {"func", "handler"} \/ (Top(s).k = "recovery" /\ Top(s).nexts = 1)
    /\ LET f == Top(s)
           stk == Unwind(Front(stack[s]))
       IN  /\ stack' = [stack EXCEPT ![s] = stk]
           /\ log' = [log EXCEPT ![s] =
                            Append(@, Event(IF f.k = "handler" THEN "Hexit" ELSE "exit",
                                            f.e, f.i, f.g, gears[f.g].stopped, f.k))]
           /\ outcomes' = Finish(stk, "returned")
           /\ gears' = [gears EXCEPT ![f.g] =
                            IF f.k = "func" /\ f.nexts = 0 THEN Stop(@) ELSE @]
    /\ UNCHANGED <<static, wrapped, loggerOpt, incoming, engines, errlog, written, nreq, repeats>>

\* A return after which the deferred function of panicRecovery does not test
\* v != nil: it logs, answers 500 and stops the request on every return
Return_Unguarded(s) ==
    /\ Running(s)
    /\ \/ Top(s).k \in {"func", "handler"}
       \/ (Top(s).k \in {"recovery", "logger", "interceptor"} /\ Top(s).nexts = 1)
    /\ LET f == Top(s)
           stk == Unwind(Front(stack[s]))
           d == Recovered(gears[f.g], "nil")
       IN  /\ stack' = [stack EXCEPT ![s] = stk]
           /\ log' = [log EXCEPT ![s] =
                            Append(@, Event(IF f.k = "handler" THEN "Hexit" ELSE "exit",
                                            f.e, f.i, f.g, gears[f.g].stopped, f.k))]
           /\ outcomes' = Finish(stk, "returned")
           /\ gears' = [gears EXCEPT ![f.g] = IF f.k = "recovery" THEN d.gear ELSE @]
           /\ errlog' = IF f.k = "recovery" THEN d.errlog ELSE errlog
           /\ written' = IF f.k = "recovery" THEN d.written ELSE written
    /\ UNCHANGED <<static, wrapped, loggerOpt, incoming, engines, nreq, repeats>>

\* The running call returns normally.
Return(s) ==
    /\ Running(s)
    /\ \/ Top(s).k \in {"func", "handler"}
       \/ (Top(s).k \in {"recovery", "logger", "interceptor"} /\ Top(s).nexts = 1)
    /\ LET f == Top(s)
           stk == Unwind(Front(stack[s]))
       IN  /\ stack' = [stack EXCEPT ![s] = stk]
           /\ log' = [log EXCEPT ![s] =
                            Append(@, Event(IF f.k = "handler" THEN "Hexit" ELSE "exit",
                                            f.e, f.i, f.g, gears[f.g].stopped, f.k))]
           /\ outcomes' = Finish(stk, "returned")
    /\ UNCHANGED <<static, wrapped, loggerOpt, incoming, gears, engines, errlog, written, nreq, repeats>>

\* The running user code panics with value v: the stack unwinds to the innermost
\* panicRecovery, or out of the Wrap-produced handler to the transport.
Panic(s, v) ==
    /\ Running(s)
    /\ Top(s).k \in {"func", "handler"}
    /\ LET f == Top(s)
           k == RecoveryAt(stack[s])
       IN  IF k = 0
           THEN /\ stack' = [stack EXCEPT ![s] = <<>>]
                /\ log' = [log EXCEPT ![s] =
                                Append(@, Event("panic", f.e, f.i, f.g, gears[f.g].stopped, v))]
                /\ outcomes' = Append(outcomes, "panicked")
                /\ UNCHANGED <<gears, errlog, written>>
           ELSE LET rf == stack[s][k]
                    d == Recovered(gears[rf.g], v)
                    stk == Unwind(SubSeq(stack[s], 1, k - 1))
                IN  /\ stack' = [stack EXCEPT ![s] = stk]
                    /\ log' = [log EXCEPT ![s] =
                                    @ \o <<Event("panic", f.e, f.i, f.g, gears[f.g].stopped, v),
                                           Event("recovered", rf.e, rf.i, rf.g, TRUE, v)>>]
                    /\ gears' = [gears EXCEPT ![rf.g] = d.gear]
                    /\ errlog' = d.errlog
                    /\ written' = d.written
                    /\ outcomes' = Finish(stk, "returned")
    /\ UNCHANGED <<static, wrapped, loggerOpt, incoming, engines, nreq, repeats>>

\* The running terminal handler of the top handler (a mux) dispatches to the
\* inner Wrap-produced handler with the request it was given and with the
\* response writer it was given or (own) a writer of its own that wraps it.
CallInner(s, own) ==
    /\ Running(s)
    /\ Top(s).k = "handler"
    /\ Top(s).h = "mux"
    /\ Top(s).calls = 0
    /\ LET f == Top(s)
           c == WrapCall("inner", IF own THEN WrapperWriter ELSE f.w, f.r)
       IN  /\ gears' = c.gears
           /\ engines' = c.engines
           /\ stack' = [stack EXCEPT ![s] =
                            SetTop(@, [f EXCEPT !.calls = @ + 1]) \o c.push]
           /\ log' = [log EXCEPT ![s] = @ \o c.events]
    /\ UNCHANGED <<static, wrapped, loggerOpt, incoming, errlog, written, outcomes, nreq, repeats>>

\* The running user code calls g.MustDecodeBody/Form/Header/Query(v), the
\* underlying ParseForm and Decode returning parseErr and decErr.
MustDecode(s, which, parseErr, decErr) ==
    /\ Running(s)
    /\ Top(s).k \in {"func", "handler"}
    /\ Top(s).calls = 0
    /\ Len(SelectSeq(log[s], LAMBDA ev : ev.t \in Decoders)) < MaxDecodes
    /\ which # "MustDecodeForm" => parseErr = "nil"
    /\ LET f == Top(s)
           d == Decode(which, parseErr, decErr)
           c == mustDecode(gears[f.g], d)
       IN  /\ gears' = [gears EXCEPT ![f.g] = c.gear]
           /\ written' = c.written
           /\ errlog' = d.errlog
           /\ stack' = [stack EXCEPT ![s] = SetTop(@, [f EXCEPT !.calls = @ + 1])]
           /\ log' = [log EXCEPT ![s] =
                            Append(@, Event(which, f.e, f.i, f.g, gears[f.g].stopped,
                                            [decoded |-> decErr, returned |-> c.err]))]
    /\ UNCHANGED <<static, wrapped, loggerOpt, incoming, engines, outcomes, nreq, repeats>>

\* A Logger that writes its record and returns, leaving next(g) out
LoggerServe_NoNext(s) ==
    /\ Running(s)
    /\ Top(s).k = "logger"
    /\ Top(s).nexts = 0
    /\ LET f == Top(s)
           g == gears[f.g]
           attrs == LoggerAttrs(loggerOpt, incoming)
       IN  /\ errlog' = Append(errlog, LoggerRecord(attrs))
           /\ stack' = [stack EXCEPT ![s] = SetTop(@, [f EXCEPT !.nexts = @ + 1])]
           /\ log' = [log EXCEPT ![s] =
                            Append(@, Event("logged", f.e, f.i, f.g, g.stopped, attrs))]
    /\ UNCHANGED <<static, wrapped, loggerOpt, incoming, gears, engines, written, outcomes,
                   nreq, repeats>>

\* The body of the Logger middleware: it builds the attributes, writes the
\* record and calls next(g); nothing follows the call.
LoggerServe(s) ==
    /\ Running(s)
    /\ Top(s).k = "logger"
    /\ Top(s).nexts = 0
    /\ LET f == Top(s)
           g == gears[f.g]
           attrs == LoggerAttrs(loggerOpt, incoming)
           c == next(engines[f.e], f.e, f.g, g)
       IN  /\ errlog' = Append(errlog, LoggerRecord(attrs))
           /\ engines' = [engines EXCEPT ![f.e] = c.m]
           /\ stack' = [stack EXCEPT ![s] =
                            SetTop(@, [f EXCEPT !.nexts = @ + 1]) \o c.push]
           /\ log' = [log EXCEPT ![s] =
                            @ \o <<Event("logged", f.e, f.i, f.g, g.stopped, attrs),
                                   Event("next", f.e, f.i, f.g, g.stopped, f.k)>>
                              \o c.events]
    /\ UNCHANGED <<static, wrapped, loggerOpt, incoming, gears, written, outcomes, nreq, repeats>>

\* func (m *PathInterceptor) Serve(g *Gear, next func(*Gear)): for a matching
\* path it calls m.handler.Serve(g, next), which runs as user code with the same
\* continuation; then, or at once for another path, it calls next(g) and returns.
InterceptorServe(s) ==
    /\ Running(s)
    /\ Top(s).k = "interceptor"
    /\ Top(s).nexts = 0
    /\ LET f == Top(s)
           g == gears[f.g]
           c == next(engines[f.e], f.e, f.g, g)
       IN  IF f.calls = 0 /\ Intercepts(interceptor, urlPath)
           THEN /\ stack' = [stack EXCEPT ![s] =
                                SetTop(@, [f EXCEPT !.calls = @ + 1])
                                    \o <<Frame("func", "intercept", f.e, f.i, f.g, 0, f.r)>>]
                /\ log' = [log EXCEPT ![s] =
                                Append(@, Event("intercept", f.e, f.i, f.g, g.stopped, urlPath))]
                /\ UNCHANGED engines
           ELSE /\ engines' = [engines EXCEPT ![f.e] = c.m]
                /\ stack' = [stack EXCEPT ![s] =
                                SetTop(@, [f EXCEPT !.nexts = @ + 1]) \o c.push]
                /\ log' = [log EXCEPT ![s] =
                                Append(@, Event("next", f.e, f.i, f.g, g.stopped, f.k))
                                    \o c.events]
    /\ UNCHANGED <<static, wrapped, loggerOpt, incoming, gears, errlog, written, outcomes,
                   nreq, repeats>>

\* One transport goroutine serving a single request; user code is arbitrary.
Next ==
    \/ StartRequest("a", 1)
    \/ CallNext("a", MaxRepeat)
    \/ CallStop("a")
    \/ Return("a")
    \/ \E v \in PanicValues : Panic("a", v)
    \/ \E own \in BOOLEAN : CallInner("a", own)

Spec == Init /\ [][Next]_vars

\* ---- reading the observed events of a request ----
Pos(s) == 1..Len(log[s])
Ev(s, p) == log[s][p]
Is(s, p, t, e) == Ev(s, p).t = t /\ Ev(s, p).e = e
IsAt(s, p, t, e, i) == Is(s, p, t, e) /\ Ev(s, p).i = i

\* Engines that served (part of) the request of goroutine s, and their lists.
EnginesOf(s) == {Ev(s, p).e : p \in {q \in Pos(s) : Ev(s, q).t = "wrap"}}
ListOf(e) == engines[e].middlewares
Indices(e) == 0..(Len(ListOf(e)) - 1)
Active(s, e) == \E k \in 1..Len(stack[s]) : stack[s][k].e = e

Happened(s, t) == \E p \in Pos(s) : Ev(s, p).t = t
NextCalls(s, e, i) == Cardinality({p \in Pos(s) : IsAt(s, p, "next", e, i)})
Entered(s, e, i) == \E p \in Pos(s) : IsAt(s, p, "enter", e, i)
Exited(s, e, i) == \E p \in Pos(s) : IsAt(s, p, "exit", e, i)

\* Serve entries, handler invocations and Serve returns of engine e, in order.
Trace(s, e) ==
    LET evs == SelectSeq(log[s], LAMBDA ev : ev.e = e /\ ev.t \in {"enter", "H", "exit"})
    IN  [k \in 1..Len(evs) |-> <<evs[k].t, evs[k].i>>]

\* before-code of m(N-1), ..., m0, then H, then after-code of m0, ..., m(N-1)
ReverseOrder(n) ==
    [k \in 1..(2 * n + 1) |->
        IF k <= n THEN <<"enter", n - k>>
        ELSE IF k = n + 1 THEN <<"H", 0 - 1>>
        ELSE <<"exit", k - n - 2>>]

\* Every Serve that ran called next exactly once; nobody called Stop or panicked.
WellBehaved(s, e) ==
    /\ \A i \in Indices(e) : Entered(s, e, i) => NextCalls(s, e, i) = 1
    /\ ~Happened(s, "stop")
    /\ ~Happened(s, "panic")

\* C1: when every middleware calls next exactly once and nobody calls Stop or
\* panics, a finished chain of N middlewares has run the before-code of
\* m(N-1), ..., m0, then H, then the after-code of m0, ..., m(N-1).
C1_ReverseOrder ==
    \A s \in Slots : \A e \in EnginesOf(s) :
        (~Active(s, e) /\ WellBehaved(s, e))
            => Trace(s, e) = ReverseOrder(Len(ListOf(e)))

C1_Witness ==
    /\ ~Running("a")
    /\ 1 \in EnginesOf("a")
    /\ Len(ListOf(1)) >= 3
    /\ WellBehaved("a", 1)
    /\ Len(Trace("a", 1)) = 2 * Len(ListOf(1)) + 1

\* Stop() was called by the Serve of (e, i) at position p of the request's events.
StopBy(s, p, e, i) == IsAt(s, p, "stop", e, i) /\ Ev(s, p).x = "func"

\* A middleware or the terminal handler of engine e was invoked at position p.
Invoked(s, p) == Ev(s, p).t \in {"enter", "H"}

\* C2: if m(i) calls Stop() and does not call next(), no middleware after it in
\* execution order (index below i) and not the terminal handler is invoked for
\* that request, and Stop() leaves the call stack as it was, so the code of m(i)
\* after Stop() goes on to its own return.
C2_StopHalts ==
    \A s \in Slots : \A e \in EnginesOf(s) : \A i \in Indices(e) :
        ((\E p \in Pos(s) : StopBy(s, p, e, i)) /\ NextCalls(s, e, i) = 0)
            => /\ \A q \in Pos(s) : ~(Is(s, q, "enter", e) /\ Ev(s, q).i < i)
               /\ \A q \in Pos(s) : ~Is(s, q, "H", e)
               /\ \A p \in Pos(s), q \in Pos(s) :
                      (StopBy(s, p, e, i) /\ q > p) => ~Invoked(s, q)
               /\ \/ Exited(s, e, i)
                  \/ \E q \in Pos(s) : IsAt(s, q, "panic", e, i)
                  \/ (Running(s) /\ Top(s).e = e /\ Top(s).i = i /\ Top(s).k = "func")

C2_Witness ==
    /\ ~Running("a")
    /\ \E e \in EnginesOf("a") : \E i \in Indices(e) :
          /\ i >= 1
          /\ NextCalls("a", e, i) = 0
          /\ \E p \in Pos("a"), q \in Pos("a") :
                StopBy("a", p, e, i) /\ q > p /\ IsAt("a", q, "exit", e, i)
          \* an upstream middleware called next() again after m(i) returned
          /\ \E q \in Pos("a") : Is("a", q, "next", e) /\ Ev("a", q).i > i /\ Ev("a", q).st

\* The next() call at position p was made by a Serve that had called Stop() before.
NextAfterOwnStop(s, p) ==
    /\ Ev(s, p).t = "next"
    /\ \E q \in 1..(p - 1) : StopBy(s, q, Ev(s, p).e, Ev(s, p).i)

\* next() calls of engine e that were not made after a Stop() or a recovery.
Advances(s, e) ==
    Cardinality({p \in Pos(s) :
        /\ Is(s, p, "next", e)
        /\ \A q \in 1..(p - 1) : Ev(s, q).t \notin {"stop", "recovered"}})

\* C3: when m(i) calls Stop() and then next(), any number of times, the
\* continuation returns at once: the cursor is not decremented (the cursor has
\* moved only by the next() calls made before any Stop()) and no middleware and
\* not the terminal handler is invoked by it.
C3_NextAfterStop ==
    \A s \in Slots :
        /\ \A p \in Pos(s) :
              NextAfterOwnStop(s, p) => (p < Len(log[s]) => ~Invoked(s, p + 1))
        /\ \A e \in EnginesOf(s) :
              engines[e].i = newMwExec(ListOf(e), engines[e].handler).i - Advances(s, e)

C3_Witness ==
    \E p \in Pos("a"), q \in Pos("a") :
        /\ p < q
        /\ NextAfterOwnStop("a", p)
        /\ NextAfterOwnStop("a", q)
        /\ Ev("a", p).e = Ev("a", q).e /\ Ev("a", p).i = Ev("a", q).i
        /\ Ev("a", p).i >= 1
        /\ Happened("a", "exit")

\* C4: no Serve of a chain middleware and no terminal handler begins while the
\* Gear's stopped flag is true, whatever next()/Stop() calls are made.
C4_NothingStartsStopped ==
    \A s \in Slots : \A p \in Pos(s) : Invoked(s, p) => ~Ev(s, p).st

\* Stop() by a downstream middleware, then next() again by an upstream one.
C4_Witness ==
    \E p \in Pos("a"), q \in Pos("a"), r \in Pos("a") :
        /\ p < q /\ q < r
        /\ Ev("a", p).t = "next" /\ Ev("a", r).t = "next"
        /\ Ev("a", p).e = Ev("a", r).e /\ Ev("a", p).i = Ev("a", r).i
        /\ Ev("a", q).t = "stop" /\ Ev("a", q).e = Ev("a", p).e /\ Ev("a", q).i < Ev("a", p).i
        /\ Ev("a", q).i >= 0

\* The engine the transport's call of goroutine s started, and its Gear.
TopEngine(s) == Ev(s, 1).e
GearOf(s) == gears[Ev(s, 1).g]
RecoveryLast(e) == ListOf(e) # <<>> /\ Last(ListOf(e)) = "recovery"
Panics(s) == SelectSeq(log[s], LAMBDA ev : ev.t = "panic")

\* The Serve of (e, i) was entered before position p and had not returned by then.
OpenAt(s, p, e, i) ==
    \E q \in 1..(p - 1) :
        /\ IsAt(s, q, "enter", e, i)
        /\ \A x \in (q + 1)..(p - 1) : ~IsAt(s, x, "exit", e, i)

\* Where the Serve of the middleware that recovered the panic of position p was
\* entered (the recovery is recorded right after the panic).
RecovererEntry(s, p) ==
    CHOOSE q \in 1..p : IsAt(s, q, "enter", Ev(s, p + 1).e, Ev(s, p + 1).i)

\* What a request served behind an outermost panicRecovery shows of its panics:
\* one ERROR record per panic with its value, a 500 per panic, stopped set, and
\* the handler returning normally.
PanicsContained(s) ==
    /\ errlog = [k \in 1..Len(Panics(s)) |-> RecoveryRecord(Panics(s)[k].x)]
    /\ written[GearOf(s).W] =
           [k \in 1..Len(Panics(s)) |-> StatusInternalServerError]
    /\ Panics(s) # <<>> => GearOf(s).stopped
    /\ \A p \in Pos(s) : Ev(s, p).t = "panic" =>
           (p < Len(log[s]) /\ Ev(s, p + 1).t = "recovered" /\ Ev(s, p + 1).x = Ev(s, p).x)
    /\ "panicked" \notin {outcomes[k] : k \in 1..Len(outcomes)}
    /\ (~Running(s) /\ log[s] # <<>>) => outcomes = <<"returned">>

\* C5 as stated: behind a panicRecovery that is the last list element, a panic
\* of an inner middleware or of H gives exactly one ERROR record with the panic
\* value, a 500, stopped = true, a normal return of the wrapped handler, and no
\* after-code of any middleware between the panic point and that (last,
\* outermost) recovery middleware.
C5_AsStated ==
    \A s \in Slots :
        (log[s] # <<>> /\ RecoveryLast(TopEngine(s))) =>
            /\ PanicsContained(s)
            /\ \A p \in Pos(s) : Ev(s, p).t = "panic" =>
                   \A e \in EnginesOf(s) : \A i \in Indices(e) :
                       (OpenAt(s, p, e, i)
                           /\ ~(e = TopEngine(s) /\ i = Len(ListOf(e)) - 1))
                       => \A q \in (p + 1)..Len(log[s]) : ~IsAt(s, q, "exit", e, i)

\* C5 (amended): as stated, but the middlewares whose after-code does not run
\* are those between the panic point and the innermost panicRecovery enclosing
\* it, which is the one that recovers.
C5_PanicContained ==
    \A s \in Slots :
        (log[s] # <<>> /\ RecoveryLast(TopEngine(s))) =>
            /\ PanicsContained(s)
            /\ \A p \in Pos(s) : Ev(s, p).t = "panic" =>
                   \A e \in EnginesOf(s) : \A i \in Indices(e) :
                       (\E q \in (RecovererEntry(s, p) + 1)..(p - 1) : IsAt(s, q, "enter", e, i))
                       => \A q \in p..Len(log[s]) : ~IsAt(s, q, "exit", e, i)

C5_Witness ==
    /\ ~Running("a")
    /\ log["a"] # <<>>
    /\ ListOf(TopEngine("a")) = <<"func", "func", "recovery">>
    /\ Len(Panics("a")) = 1
    /\ Panics("a")[1].x = "boom"
    /\ \E p \in Pos("a") : Ev("a", p).t = "panic" /\ Ev("a", p).i = 0 - 1
                             /\ Ev("a", p).e = TopEngine("a")
    /\ Entered("a", TopEngine("a"), 0) /\ ~Exited("a", TopEngine("a"), 0)
    /\ Entered("a", TopEngine("a"), 1) /\ ~Exited("a", TopEngine("a"), 1)
    /\ outcomes = <<"returned">>

\* The calls of Wrap-produced handlers made for the request of goroutine s: the
\* first is the transport's, any later one is made from inside the chain with
\* the request that carries the Gear.
WrapCalls(s) == {p \in Pos(s) : Ev(s, p).t = "wrap"}
NestedCalls(s) == {p \in WrapCalls(s) : p > 1}
InvokedBy(s, e) == {p \in Pos(s) : Invoked(s, p) /\ Ev(s, p).e = e}

\* exec started the chain of engine e right at position p + 1: the Serve of the
\* last middleware, or the terminal handler when there is none.
ChainStarted(s, p) ==
    /\ p < Len(log[s])
    /\ Ev(s, p + 1).e = Ev(s, p).e
    /\ IF ListOf(Ev(s, p).e) = <<>> THEN Ev(s, p + 1).t = "H"
       ELSE Ev(s, p + 1).t = "enter" /\ Ev(s, p + 1).i = Len(ListOf(Ev(s, p).e)) - 1

C7_EnteredStopped ==
    \A s \in Slots : \A p \in WrapCalls(s) :
        Ev(s, p).st =>
            /\ InvokedBy(s, Ev(s, p).e) = {}
            /\ ~Active(s, Ev(s, p).e)
            /\ engines[Ev(s, p).e].i = Ev(s, p).i

C7_Witness ==
    \E p \in WrapCalls("a") :
        /\ Ev("a", p).st
        /\ ListOf(Ev("a", p).e) = <<>>
        /\ p < Len(log["a"])
        /\ Ev("a", p + 1).t = "Hexit"

\* C8: with an empty list and a Gear that is not stopped, the terminal handler
\* is invoked exactly once, directly by exec, with the Gear's response writer
\* and the Gear's request (the one carrying the Gear), and the cursor keeps its
\* zero value.
C8_EmptyChain ==
    \A s \in Slots : \A p \in WrapCalls(s) :
        (~Ev(s, p).st /\ ListOf(Ev(s, p).e) = <<>>) =>
            /\ ChainStarted(s, p)
            /\ InvokedBy(s, Ev(s, p).e) = {p + 1}
            /\ Ev(s, p + 1).g = Ev(s, p).g
            /\ engines[Ev(s, p).e].i = 0
            /\ \A k \in 1..Len(stack[s]) :
                   (stack[s][k].k = "handler" /\ stack[s][k].e = Ev(s, p).e) =>
                       /\ stack[s][k].w = gears[Ev(s, p).g].W
                       /\ stack[s][k].r = gears[Ev(s, p).g].R
                       /\ getGear(stack[s][k].r) = Ev(s, p).g

\* The inner handler, with an empty list, was called with a writer of the mux's
\* own and its terminal handler runs with the Gear's writer.
C8_Witness ==
    /\ Running("a")
    /\ Top("a").k = "handler"
    /\ Top("a").h = "leaf"
    /\ ListOf(Top("a").e) = <<>>
    /\ Top("a").w # WrapperWriter
    /\ stack["a"][Len(stack["a"]) - 1].k = "wrap"
    /\ stack["a"][Len(stack["a"]) - 1].w = WrapperWriter

\* ---- panics and Stop() seen from the chain ----
\* No engine that served the request of goroutine s has a panicRecovery in its list.
NoRecovery(s) ==
    \A e \in EnginesOf(s) : \A k \in 1..Len(ListOf(e)) : ListOf(e)[k] # "recovery"

\* Serve calls in progress (entered, not returned) right before position p.
Waiting(s, p) ==
    {<<e, i>> \in {<<Ev(s, q).e, Ev(s, q).i>> : q \in 1..(p - 1)} : OpenAt(s, p, e, i)}

\* C11: without a panicRecovery in the chain, a panic of a middleware or of the
\* terminal handler leaves the Wrap-produced handler as a panic: the engine
\* recovers nothing (no record, no response, stopped untouched), the panic is the
\* last thing the request does, and no middleware waiting on next() runs its
\* after-code.
C11_PanicPropagates ==
    \A s \in Slots : NoRecovery(s) =>
        \A p \in Pos(s) : Ev(s, p).t = "panic" =>
            /\ p = Len(log[s])
            /\ stack[s] = <<>>
            /\ outcomes # <<>> /\ Last(outcomes) = "panicked"
            /\ \A pr \in Waiting(s, p) :
                   \A q \in Pos(s) : q > p => ~IsAt(s, q, "exit", pr[1], pr[2])
            /\ errlog = <<>>
            /\ \A w \in DOMAIN written : written[w] = <<>>
            /\ gears[Ev(s, p).g].stopped = Happened(s, "stop")

\* The terminal handler panicked while three middlewares waited on next().
C11_Witness ==
    /\ NoRecovery("a")
    /\ log["a"] # <<>>
    /\ Last(log["a"]).t = "panic"
    /\ Last(log["a"]).i = 0 - 1
    /\ Cardinality(Waiting("a", Len(log["a"]))) >= 3
    /\ outcomes = <<"panicked">>

\* The panic at position p was recovered (the recovery is recorded right after it).
Caught(s, p) == p < Len(log[s]) /\ Ev(s, p + 1).t = "recovered"

\* The Serve of (e, i) is in progress right before position p: entered, not
\* returned and not left through its own recovery.
InProgress(s, p, e, i) ==
    /\ OpenAt(s, p, e, i)
    /\ \A q \in 1..(p - 1) : ~IsAt(s, q, "recovered", e, i)

\* The panicRecovery at index k of engine e is the only one in the lists that
\* served the request of goroutine s.
SoleRecovery(s, e, k) ==
    /\ e \in EnginesOf(s) /\ k \in Indices(e)
    /\ \A e2 \in EnginesOf(s) : \A j \in Indices(e2) :
           At(ListOf(e2), j) = "recovery" <=> (e2 = e /\ j = k)

\* A Serve of engine e at an index above k called next() again (after an
\* earlier next() of its own) before position p.
NextAgainAbove(s, p, e, k) ==
    \E q \in 1..(p - 1), r \in 1..(p - 1) :
        /\ q < r
        /\ Is(s, q, "next", e) /\ Is(s, r, "next", e)
        /\ Ev(s, q).i = Ev(s, r).i /\ Ev(s, q).i > k

\* After the panic at position p was recovered by (e, k): the Serve calls that
\* waited on next() outside the recovery go on (they return, are still on the
\* stack, or a later panic takes them), and what returns sees stopped = true.
ResumedAfter(s, p, e, k) ==
    /\ \A pr \in Waiting(s, RecovererEntry(s, p)) :
           \/ \E q \in Pos(s) : q > p + 1 /\ IsAt(s, q, "exit", pr[1], pr[2])
           \/ \E j \in 1..Len(stack[s]) : stack[s][j].e = pr[1] /\ stack[s][j].i = pr[2]
           \/ \E q \in Pos(s) : q > p + 1 /\ Ev(s, q).t = "panic"
    /\ \A q \in Pos(s) : (q > p + 1 /\ Ev(s, q).t \in {"exit", "Hexit"}) => Ev(s, q).st
    /\ \A q \in Pos(s) : q > p + 1 => ~Invoked(s, q)

EntryPos(s, p, e, i) ==
    CHOOSE q \in 1..(p - 1) :
        IsAt(s, q, "enter", e, i) /\ \A x \in (q + 1)..(p - 1) : ~IsAt(s, x, "exit", e, i)

\* Where the Serve of (e, i) returned, 0 if it has not.
ExitPos(s, e, i) ==
    IF Exited(s, e, i) THEN CHOOSE q \in Pos(s) : IsAt(s, q, "exit", e, i) ELSE 0

\* The Serve calls on the call stack of goroutine s.
OnStack(s) ==
    {<<stack[s][j].e, stack[s][j].i>> :
        j \in {x \in 1..Len(stack[s]) : stack[s][x].k \in MwKinds}}

\* C13: Stop() unwinds nothing. In a request without panics, every Serve in
\* progress when Stop() is called (the caller's own, and those waiting on
\* next() upstream of it) is on the call stack until it returns by itself, the
\* request is not over before all of them returned, and they return innermost
\* first.
C13_StopUnwindsNothing ==
    \A s \in Slots : ~Happened(s, "panic") =>
        /\ OnStack(s) = Waiting(s, Len(log[s]) + 1)
        /\ \A p \in Pos(s) : Ev(s, p).t = "stop" =>
               /\ \A pr \in Waiting(s, p) :
                      \/ <<pr[1], pr[2]>> \in OnStack(s)
                      \/ ExitPos(s, pr[1], pr[2]) > p
               /\ ~Running(s) => \A pr \in Waiting(s, p) : ExitPos(s, pr[1], pr[2]) > p
               /\ \A pr \in Waiting(s, p), qr \in Waiting(s, p) :
                      (EntryPos(s, p, pr[1], pr[2]) < EntryPos(s, p, qr[1], qr[2])
                          /\ ExitPos(s, pr[1], pr[2]) > p)
                      => /\ ExitPos(s, qr[1], qr[2]) > p
                         /\ ExitPos(s, qr[1], qr[2]) < ExitPos(s, pr[1], pr[2])

\* The terminal handler called Stop() while three middlewares waited on next();
\* they have all returned since, m0 first and m2 last.
C13_Witness ==
    /\ ~Running("a")
    /\ ~Happened("a", "panic")
    /\ \E p \in Pos("a") :
          /\ Ev("a", p).t = "stop" /\ Ev("a", p).x = "handler" /\ Ev("a", p).e = 1
          /\ Cardinality(Waiting("a", p)) = 3
          /\ p < ExitPos("a", 1, 0)
          /\ ExitPos("a", 1, 0) < ExitPos("a", 1, 1)
          /\ ExitPos("a", 1, 1) < ExitPos("a", 1, 2)

\* The Serve of (e, i) returned without having called next() or Stop().
SilentReturn(s, e, i) ==
    /\ Exited(s, e, i)
    /\ NextCalls(s, e, i) = 0
    /\ \A p \in Pos(s) : ~StopBy(s, p, e, i)

\* Invocations of what comes after m(i) in engine e: lower indices and the handler.
Downstream(s, e, i) == {q \in InvokedBy(s, e) : Ev(s, q).i < i}

\* Somebody called Stop() on Gear g, or a panicRecovery did, before position p.
StoppedBefore(s, p, g) ==
    \E r \in 1..(p - 1) : Ev(s, r).t \in {"stop", "recovered"} /\ Ev(s, r).g = g

\* What a silent return leaves alone: stopped is only what Stop() calls and
\* recoveries made it, and in a request without panics the Serve calls waiting
\* upstream are on the stack until they return.
HaltKeeps(s, e, i) ==
    LET x == ExitPos(s, e, i)
        g == Ev(s, x).g
    IN  /\ Ev(s, x).st = StoppedBefore(s, x, g)
        /\ gears[g].stopped = StoppedBefore(s, Len(log[s]) + 1, g)
        /\ ~Happened(s, "panic") =>
               \A pr \in Waiting(s, x) \ {<<e, i>>} :
                   <<pr[1], pr[2]>> \in OnStack(s) \/ ExitPos(s, pr[1], pr[2]) > x

\* C14 as stated: when m(i) returns without calling next() or Stop(), no
\* middleware after it and not the terminal handler is invoked for the request,
\* stopped stays as it was, and the upstream middlewares go on to their after-code.
C14_AsStated ==
    \A s \in Slots : \A e \in EnginesOf(s) : \A i \in Indices(e) :
        SilentReturn(s, e, i) =>
            /\ Downstream(s, e, i) = {}
            /\ HaltKeeps(s, e, i)

\* C14 (amended): as stated, except that the chain stays halted only as long as
\* no upstream middleware calls next() again: whatever is invoked downstream of
\* m(i) is invoked after m(i) returned, by a next() call of a middleware at a
\* higher index.
C14_SilentHalt ==
    \A s \in Slots : \A e \in EnginesOf(s) : \A i \in Indices(e) :
        SilentReturn(s, e, i) =>
            /\ \A q \in Downstream(s, e, i) :
                   \E r \in (ExitPos(s, e, i) + 1)..(q - 1) :
                       /\ Is(s, r, "next", e) /\ Ev(s, r).i > i
                       /\ \E r0 \in 1..(r - 1) : IsAt(s, r0, "next", e, Ev(s, r).i)
            /\ HaltKeeps(s, e, i)

\* m1 of three returned silently; m2 ran its after-code and returned; neither m0
\* nor the handler ran and nobody stopped the request.
C14_Witness ==
    /\ ~Running("a")
    /\ log["a"] # <<>>
    /\ Len(ListOf(TopEngine("a"))) = 3
    /\ SilentReturn("a", TopEngine("a"), 1)
    /\ Downstream("a", TopEngine("a"), 1) = {}
    /\ ExitPos("a", TopEngine("a"), 2) > ExitPos("a", TopEngine("a"), 1)
    /\ ~GearOf("a").stopped
    /\ outcomes = <<"returned">>

\* Events of the request of goroutine s recorded on Gear g.
OnGear(s, g) == {p \in Pos(s) : Ev(s, p).g = g}

\* C15: Stop() is idempotent and touches nothing but the stopped flag (R and W
\* are as they were, the cursor has moved only by next() calls), and stopped
\* never goes back to false during a request: from the first Stop() on, every
\* event of the request sees stopped = true, and so does the Gear.
C15_StopIdempotentMonotonic ==
    /\ \A g \in 1..Len(gears) :
           /\ Stop(gears[g]).stopped
           /\ Stop(Stop(gears[g])) = Stop(gears[g])
           /\ Stop(gears[g]).R = gears[g].R /\ Stop(gears[g]).W = gears[g].W
           /\ gears[g].stopped => Stop(gears[g]) = gears[g]
    /\ \A s \in Slots :
           /\ \A p \in Pos(s) : Ev(s, p).t = "stop" =>
                  /\ gears[Ev(s, p).g].stopped
                  /\ \A q \in OnGear(s, Ev(s, p).g) : q > p => Ev(s, q).st
           /\ \A p \in Pos(s), q \in Pos(s) :
                  (p < q /\ Ev(s, p).g = Ev(s, q).g /\ Ev(s, p).st) => Ev(s, q).st
           /\ \A p \in Pos(s) : Ev(s, p).st => gears[Ev(s, p).g].stopped
           /\ \A e \in EnginesOf(s) :
                  engines[e].i = newMwExec(ListOf(e), engines[e].handler).i - Advances(s, e)
           /\ log[s] # <<>> =>
                  /\ GearOf(s).R = [id |-> Ev(s, 1).g, gear |-> Ev(s, 1).g, ctx |-> NoValues]
                  /\ GearOf(s).W = Ev(s, 1).g

\* Stop() was called three times on the Gear of the request, the second and
\* third time with stopped already true, and a next() followed.
C15_Witness ==
    \E p \in Pos("a"), q \in Pos("a"), r \in Pos("a") :
        /\ p < q /\ q < r
        /\ Ev("a", p).t = "stop" /\ ~Ev("a", p).st
        /\ Ev("a", q).t = "stop" /\ Ev("a", q).st
        /\ Ev("a", r).t = "stop" /\ Ev("a", r).st
        /\ \E x \in Pos("a") : x > r /\ Ev("a", x).t = "next"
        /\ GearOf("a").stopped

\* The request the transport handed to the Wrap-produced handler for request n.
TransportRequest(n) == [id |-> n, gear |-> NoGear, ctx |-> NoValues]

\* C16: G(r) panics exactly when r carries no Gear. The request the transport
\* delivers carries none; the request of every Gear (g.R, what a middleware
\* gets) and the request every terminal handler is called with carry the one
\* Gear made for the request, so all calls of one request work on the same Gear
\* and see the same stopped flag.
C16_OneGearPerRequest ==
    /\ \A n \in 1..nreq :
           G(TransportRequest(n)).panics /\ ~carriesGear(TransportRequest(n))
    /\ \A g \in 1..Len(gears) :
           /\ G(gears[g].R).panics <=> getGear(gears[g].R) = NoGear
           /\ ~G(gears[g].R).panics /\ G(gears[g].R).gear = g
    /\ \A s \in Slots :
           /\ \A j \in 1..Len(stack[s]) :
                  LET f == stack[s][j]
                  IN  /\ f.g = Ev(s, 1).g
                      /\ f.k \in MwKinds => G(gears[f.g].R).gear = Ev(s, 1).g
                      /\ f.k = "handler" =>
                             ~G(f.r).panics /\ G(f.r).gear = Ev(s, 1).g
           /\ \A p \in Pos(s) : Ev(s, p).g = Ev(s, 1).g
           /\ \A p \in Pos(s) : Ev(s, p).t = "wrap" =>
                  (Ev(s, p).x = "fresh" <=> p = 1)
    /\ Len(gears) = nreq

\* The terminal handler of the inner Wrap-produced handler runs, two levels
\* below the transport and behind a middleware of each level, on the Gear the
\* outer handler made.
C16_Witness ==
    /\ Running("a")
    /\ Top("a").k = "handler" /\ Top("a").h = "leaf"
    /\ Len(ListOf(Top("a").e)) = 1
    /\ Len(ListOf(TopEngine("a"))) >= 2
    /\ G(Top("a").r).gear = 1
    /\ Cardinality({stack["a"][j].e : j \in 1..Len(stack["a"])}) = 2

\* ---- requests served one after another ----
\* One transport goroutine serves MaxRequests requests in turn through the same
\* Wrap-produced handler, which wraps a leaf handler; each Serve calls next(g)
\* at most once.
InitSeq == Built(MaxMw, 0, {"leaf"})

NextSeq ==
    \/ StartRequest("a", MaxRequests)
    \/ CallNext("a", 0)
    \/ CallStop("a")
    \/ Return("a")
    \/ \E v \in PanicValues : Panic("a", v)

SpecSeq == InitSeq /\ [][NextSeq]_vars

\* Where the cursor of a new engine for this list stands.
FreshCursor(list) == IF list = <<>> THEN 0 ELSE Len(list) - 1

\* The request being served is the nreq-th: it has the nreq-th Gear and engine,
\* the Gear is not stopped, and exec starts the chain at the last-added middleware.
FreshRequest(s) ==
    /\ Ev(s, 1).t = "wrap"
    /\ Ev(s, 1).x = "fresh"
    /\ Ev(s, 1).g = nreq /\ Len(gears) = nreq
    /\ Ev(s, 1).e = nreq /\ Len(engines) = nreq
    /\ ~Ev(s, 1).st
    /\ ChainStarted(s, 1)

\* C9 as stated: every request served by the same Wrap-produced handler starts
\* with a fresh engine whose cursor is len(list)-1 and a fresh Gear that is not
\* stopped, and runs the chain from the last-added middleware, however the
\* requests before it ended.
C9_AsStated ==
    log["a"] # <<>> =>
        /\ FreshRequest("a")
        /\ Ev("a", 1).i = Len(ListOf(Ev("a", 1).e)) - 1

\* C9 (amended): as stated, with the cursor at len(list)-1 for a non-empty list
\* and at 0 for the empty list.
C9_FreshPerRequest ==
    log["a"] # <<>> =>
        /\ FreshRequest("a")
        /\ Ev("a", 1).i = FreshCursor(ListOf(Ev("a", 1).e))

\* The second request runs its whole chain after a request that was stopped and
\* ended in a panic nobody recovered.
C9_Witness ==
    /\ nreq = 2
    /\ outcomes = <<"panicked", "returned">>
    /\ gears[1].stopped
    /\ engines[1].i < FreshCursor(ListOf(1))
    /\ Len(ListOf(2)) >= 2
    /\ WellBehaved("a", 2)
    /\ Trace("a", 2) = ReverseOrder(Len(ListOf(2)))

\* ---- decoding requests ----
\* One request through a Wrap-produced handler whose middlewares and terminal
\* handler decode the request with the Must-decoders.
NextDecode ==
    \/ StartRequest("a", 1)
    \/ CallNext("a", 0)
    \/ CallStop("a")
    \/ Return("a")
    \/ \E which \in Decoders, parseErr \in DecodeErrors, decErr \in DecodeErrors :
           MustDecode("a", which, parseErr, decErr)

InitDecode == Built(MaxDecodeMw, 0, {"leaf"})

SpecDecode == InitDecode /\ [][NextDecode]_vars

\* Must-decoder calls of the request of goroutine s, and those that failed.
DecodeCalls(s) == {p \in Pos(s) : Ev(s, p).t \in Decoders}
FailedDecodes(s) == {p \in DecodeCalls(s) : Ev(s, p).x.decoded # "nil"}

\* C17: every Must-decoder returns the error of its Decode call. When that error
\* is not nil, it has written a 400 and set stopped = true, so that nothing is
\* invoked downstream afterwards, next() or not; when it is nil, nothing was
\* written and stopped is as it was: the response holds one 400 per failed
\* decode and nothing else, and stopped is set exactly if a decode failed or
\* Stop() was called.
C17_MustDecode ==
    \A s \in Slots : log[s] # <<>> =>
        /\ \A p \in DecodeCalls(s) : Ev(s, p).x.returned = Ev(s, p).x.decoded
        /\ \A p \in FailedDecodes(s) :
               /\ gears[Ev(s, p).g].stopped
               /\ \A q \in Pos(s) : q > p => (Ev(s, q).st /\ ~Invoked(s, q))
        /\ written[GearOf(s).W] =
               [k \in 1..Cardinality(FailedDecodes(s)) |-> StatusBadRequest]
        /\ GearOf(s).stopped = (FailedDecodes(s) # {} \/ Happened(s, "stop"))
        /\ \A p \in DecodeCalls(s) \ FailedDecodes(s) :
               p < Len(log[s]) => Ev(s, p + 1).st = Ev(s, p).st

\* m1 decoded the body without error and called next(); m0 failed to decode the
\* form, got the error back and called next(), which ran nothing.
C17_Witness ==
    /\ log["a"] # <<>>
    /\ ~Running("a")
    /\ \E p \in DecodeCalls("a"), q \in FailedDecodes("a") :
          /\ p < q
          /\ IsAt("a", p, "MustDecodeBody", 1, 1) /\ Ev("a", p).x.returned = "nil"
          /\ IsAt("a", q, "MustDecodeForm", 1, 0) /\ Ev("a", q).x.returned = "EOF"
          /\ IsAt("a", q + 1, "next", 1, 0)
          /\ IsAt("a", q + 2, "exit", 1, 0)
    /\ written[1] = <<StatusBadRequest>>
    /\ ~Happened("a", "H")

\* ---- access log ----
\* One request through a Wrap-produced handler whose list may hold the Logger
\* middleware, made with any LoggerOptions, next to arbitrary middlewares.
InitLog ==
    /\ wrapped \in {[h \in Handlers |->
                        [middlewares |-> IF h = "top" THEN l ELSE <<>>,
                         handler |-> "leaf"]] : l \in LogLists}
    /\ gears = <<>>
    /\ engines = <<>>
    /\ stack = [s \in Slots |-> <<>>]
    /\ log = [s \in Slots |-> <<>>]
    /\ errlog = <<>>
    /\ written = [w \in 1..MaxRequests |-> <<>>]
    /\ outcomes = <<>>
    /\ nreq = 0
    /\ repeats = [s \in Slots |-> 0]
    /\ loggerOpt \in Options
    /\ incoming \in Requests
    /\ Bare

NextLog ==
    \/ StartRequest("a", 1)
    \/ CallNext("a", 0)
    \/ CallStop("a")
    \/ Return("a")
    \/ LoggerServe("a")

SpecLog == InitLog /\ [][NextLog]_vars

\* Where the Logger wrote a record for the request of goroutine s, and the
\* entries of its Serve.
Logged(s) == {p \in Pos(s) : Ev(s, p).t = "logged"}
LoggerEntries(s) == {p \in Pos(s) : Ev(s, p).t = "enter" /\ Ev(s, p).x = "logger"}

\* C18: each Serve of the Logger writes exactly one INFO record "HTTP", first
\* thing and so before anything downstream starts, then calls next() once, and
\* does nothing else: no work after next() returned, no Stop().
C18_LoggerOncePerRequest ==
    \A s \in Slots :
        /\ \A p \in LoggerEntries(s) :
               LET e == Ev(s, p).e
                   i == Ev(s, p).i
               IN  /\ p < Len(log[s]) => IsAt(s, p + 1, "logged", e, i)
                   /\ p + 1 < Len(log[s]) => IsAt(s, p + 2, "next", e, i)
                   /\ Cardinality({q \in Logged(s) : IsAt(s, q, "logged", e, i)}) <= 1
                   /\ NextCalls(s, e, i) <= 1
                   /\ Exited(s, e, i) =>
                          /\ NextCalls(s, e, i) = 1
                          /\ Cardinality({q \in Logged(s) : IsAt(s, q, "logged", e, i)}) = 1
                   /\ \A q \in Pos(s) : (q >= p /\ Ev(s, q).e = e /\ Ev(s, q).i = i) =>
                          Ev(s, q).t \in {"enter", "logged", "next", "exit"}
                   /\ \A q \in Downstream(s, e, i) : q > p + 2
        /\ \A q \in Logged(s) : q - 1 \in LoggerEntries(s)
        /\ log[s] # <<>> =>
               errlog = [k \in 1..Len(SelectSeq(log[s], LAMBDA ev : ev.t = "logged")) |->
                            [level |-> "INFO", msg |-> "HTTP",
                             attrs |-> SelectSeq(log[s], LAMBDA ev : ev.t = "logged")[k].x]]

\* Behind a middleware that called next(), the Logger at index 0 wrote its
\* record, then the handler ran, and everything returned.
C18_Witness ==
    /\ ~Running("a")
    /\ log["a"] # <<>>
    /\ ListOf(1) = <<"logger", "func">>
    /\ Len(errlog) = 1
    /\ errlog[1].level = "INFO" /\ errlog[1].msg = "HTTP"
    /\ \E p \in Logged("a"), q \in Pos("a") : p < q /\ Ev("a", q).t = "H"
    /\ Exited("a", 1, 0) /\ Exited("a", 1, 1)

\* The attributes of a record that are plain (method, host, URL, ...) and those
\* that are members of the header group.
Plain(attrs) == SelectSeq(attrs, LAMBDA a : a.group = "")
HeaderGroup(attrs) == SelectSeq(attrs, LAMBDA a : a.group = LoggerHeaderKey)
KeysOf(attrs) == [k \in 1..Len(attrs) |-> attrs[k].key]

\* What the request holds under a plain Logger key.
RequestField(r, key) ==
    IF key = LoggerMethodKey THEN <<r.Method>>
    ELSE IF key = LoggerHostKey THEN <<r.Host>>
    ELSE <<r.URL>>

\* The Logger was made with options that select by Keys (Attrs not set).
ByKeys == ~loggerOpt.isNil /\ ~loggerOpt.Keys.isNil /\ loggerOpt.Attrs = "nil"

\* Keys = {method, URL, header}, HeaderKeys = [X-My-Header], GET /a/b/c?x=y
Example ==
    /\ ByKeys
    /\ loggerOpt.Keys.m = [k \in {LoggerMethodKey, LoggerURLKey, LoggerHeaderKey} |-> TRUE]
    /\ loggerOpt.HeaderKeys.list = <<"X-My-Header">>
    /\ incoming = CurlRequest

\* C19: with a non-nil Keys, every record of the Logger holds, in this order,
\* method, host and URL, each exactly if its key maps to true in Keys, with the
\* request's value, and then the header group, exactly if the header key maps to
\* true and HeaderKeys is not empty, with one member per entry of HeaderKeys, in
\* list order, holding the values of that header.
C19_SelectedAttrs ==
    \A s \in Slots : \A p \in Logged(s) :
        ByKeys =>
            LET a == Ev(s, p).x
                keys == loggerOpt.Keys.m
                hk == loggerOpt.HeaderKeys.list
            IN  /\ a = Plain(a) \o HeaderGroup(a)
                /\ KeysOf(Plain(a)) =
                       SelectSeq(<<LoggerMethodKey, LoggerHostKey, LoggerURLKey>>,
                                 LAMBDA k : k \in DOMAIN keys /\ keys[k])
                /\ \A k \in 1..Len(Plain(a)) :
                       Plain(a)[k].value = RequestField(incoming, Plain(a)[k].key)
                /\ HeaderGroup(a) # <<>> <=>
                       (LoggerHeaderKey \in DOMAIN keys /\ keys[LoggerHeaderKey] /\ hk # <<>>)
                /\ HeaderGroup(a) # <<>> =>
                       /\ KeysOf(HeaderGroup(a)) = hk
                       /\ \A k \in 1..Len(hk) :
                              HeaderGroup(a)[k].value =
                                  IF hk[k] \in DOMAIN incoming.Header
                                  THEN incoming.Header[hk[k]] ELSE <<>>
                /\ Example =>
                       a = << [group |-> "", key |-> "method", value |-> <<"GET">>],
                              [group |-> "", key |-> "URL", value |-> <<"/a/b/c?x=y">>],
                              [group |-> "header", key |-> "X-My-Header", value |-> <<"v1">>] >>

\* The Logger of the example wrote its record.
C19_Witness ==
    /\ Example
    /\ Logged("a") # {}
    /\ Len(errlog) = 1
    /\ KeysOf(errlog[1].attrs) = <<"method", "URL", "X-My-Header">>

\* C20: with opt = nil or Keys = nil (and Attrs not set) the record holds method,
\* host and URL; it holds header values only if HeaderKeys is not nil and the
\* header key is enabled (Keys nil, or true in Keys), and then those of
\* HeaderKeys; with Attrs set it holds exactly what Attrs returns for the
\* request, whatever Keys and HeaderKeys are.
C20_Defaults ==
    \A s \in Slots : \A p \in Logged(s) :
        LET a == Ev(s, p).x
            custom == ~loggerOpt.isNil /\ loggerOpt.Attrs # "nil"
        IN  /\ custom => a = CustomAttrs(incoming)
            /\ (~custom /\ (loggerOpt.isNil \/ loggerOpt.Keys.isNil)) =>
                   Plain(a) = << [group |-> "", key |-> "method", value |-> <<incoming.Method>>],
                                 [group |-> "", key |-> "host", value |-> <<incoming.Host>>],
                                 [group |-> "", key |-> "URL", value |-> <<incoming.URL>>] >>
            /\ loggerOpt.isNil => Len(a) = 3
            /\ HeaderGroup(a) # <<>> =>
                   /\ ~loggerOpt.isNil
                   /\ ~loggerOpt.HeaderKeys.isNil
                   /\ loggerOpt.Keys.isNil \/ Lookup(loggerOpt.Keys, LoggerHeaderKey)
                   /\ ~custom
            /\ (~custom /\ ~loggerOpt.isNil /\ loggerOpt.Keys.isNil) =>
                   KeysOf(HeaderGroup(a)) = loggerOpt.HeaderKeys.list

\* A Logger with Attrs set, and with Keys and HeaderKeys that select something
\* else, wrote what Attrs returned.
C20_Witness ==
    /\ ~loggerOpt.isNil
    /\ loggerOpt.Attrs = "custom"
    /\ ~loggerOpt.Keys.isNil /\ Lookup(loggerOpt.Keys, LoggerHostKey)
    /\ Len(loggerOpt.HeaderKeys.list) = 2
    /\ Len(errlog) = 1
    /\ errlog[1].attrs = CustomAttrs(incoming)

\* ---- the cursor ----
\* next() calls of engine e among the first p events that found stopped false.
Decrements(s, e, p) ==
    Cardinality({q \in 1..p : Is(s, q, "next", e) /\ ~Ev(s, q).st})

\* The indices of the Serve calls of engine e on the call stack of s, outermost first.
ActiveRun(s, e) ==
    LET fs == SelectSeq(stack[s], LAMBDA f : f.e = e /\ f.k \in MwKinds)
    IN  [k \in 1..Len(fs) |-> fs[k].i]

\* C28: whenever the engine looks up middlewares[cursor], the cursor is an index
\* of the list, whatever the middlewares do (several next() calls, next() after
\* the chain below has completed).
C28_CursorInRange ==
    \A s \in Slots : \A p \in Pos(s) :
        Ev(s, p).t = "enter"
            => /\ Ev(s, p).i >= 0
               /\ Ev(s, p).i < Len(ListOf(Ev(s, p).e))
               /\ Ev(s, p).x # OutOfRange
               /\ Ev(s, p).x = ListOf(Ev(s, p).e)[Ev(s, p).i + 1]

C28_Witness ==
    /\ ~Running("a")
    /\ \E e \in EnginesOf("a") :
          /\ Len(ListOf(e)) = 3
          /\ engines[e].i < 0 - 1
          /\ \E p \in Pos("a"), q \in Pos("a") :
                /\ Is("a", p, "Hexit", e)
                /\ q > p
                /\ IsAt("a", q, "next", e, 1)
                /\ ~Ev("a", q).st

\* What the cursor of every engine does, for a given cursor of an engine made
\* for the empty list: where it starts, what each continuation call does to it,
\* when the terminal handler is invoked, and where a well-behaved request leaves it.
CursorLaw(ofEmpty) ==
    \A s \in Slots : \A e \in EnginesOf(s) :
        LET n == Len(ListOf(e))
            start == IF n = 0 THEN ofEmpty ELSE n - 1
            After(p) == start - Decrements(s, e, p)
        IN  \* one down for each call that found stopped false, nothing else
            /\ engines[e].i = After(Len(log[s]))
            /\ \A p \in Pos(s) :
                  Is(s, p, "next", e) =>
                      IF Ev(s, p).st
                      THEN p < Len(log[s]) => ~Invoked(s, p + 1)
                      ELSE /\ p < Len(log[s])
                           /\ After(p) < 0 <=> Is(s, p + 1, "H", e)
                           /\ After(p) >= 0 <=> IsAt(s, p + 1, "enter", e, After(p))
            \* the handler is invoked by a continuation call only when the
            \* decrement took the cursor below 0 (exec invokes it for the empty list)
            /\ \A p \in Pos(s) :
                  Is(s, p, "H", e) =>
                      /\ p > 1
                      /\ \/ n = 0 /\ Is(s, p - 1, "wrap", e)
                         \/ Is(s, p - 1, "next", e) /\ ~Ev(s, p - 1).st /\ After(p - 1) < 0
            /\ (~Active(s, e) /\ WellBehaved(s, e))
                  => engines[e].i = IF n = 0 THEN ofEmpty ELSE 0 - 1

\* C29: the cursor starts at len(list)-1, never increases, goes down by exactly
\* one on each continuation call made while stopped is false and stays on a call
\* made while stopped is true; the continuation invokes the terminal handler
\* exactly when the decrement takes the cursor below 0; after a request in which
\* every middleware called next() exactly once without Stop it is -1.
C29_AsStated == CursorLaw(0 - 1)

\* C29 with the empty list set apart: its engine starts at 0 and stays there
C29_Cursor == CursorLaw(0)

C29_Witness ==
    /\ ~Running("a")
    /\ \E e \in EnginesOf("a"), d \in EnginesOf("a") :
          /\ ListOf(e) = <<>>
          /\ engines[e].i = 0
          /\ Happened("a", "Hexit")
          /\ Len(ListOf(d)) = 1
          /\ engines[d].i = 0 - 2
          /\ Cardinality({p \in Pos("a") : Is("a", p, "H", d)}) = 2

\* No Serve of the request of s has called next() more than once.
AtMostOnce(s) ==
    \A e \in EnginesOf(s) : \A i \in Indices(e) : NextCalls(s, e, i) <= 1

\* The list indices of the Serve entries of engine e, in order of entry.
EntryOrder(s, e) ==
    LET evs == SelectSeq(log[s], LAMBDA ev : ev.e = e /\ ev.t = "enter")
    IN  [k \in 1..Len(evs) |-> evs[k].i]

\* seq is n-1, n-2, ..., one after the other (or empty)
RunFrom(seq, n) == \A k \in 1..Len(seq) : seq[k] = n - k

\* The Serve calls in progress of a request whose middlewares call next() at
\* most once: a run m(N-1), ..., m(k), entered in that order and left last-in
\* first-out, one per list index; cursorIs says where the cursor stands, given
\* the run in progress and the run entered so far.
LinearChain(cursorIs(_, _, _, _)) ==
    \A s \in Slots : \A e \in EnginesOf(s) :
        AtMostOnce(s) =>
            LET n == Len(ListOf(e))
                run == ActiveRun(s, e)
            IN  /\ RunFrom(run, n)
                /\ RunFrom(EntryOrder(s, e), n)
                /\ \A i \in Indices(e), j \in Indices(e) :
                      (j < i /\ Exited(s, e, i) /\ Entered(s, e, j))
                          => \/ (Exited(s, e, j) /\ ExitPos(s, e, j) < ExitPos(s, e, i))
                             \/ (~Exited(s, e, j) /\ <<e, j>> \notin OnStack(s))
                /\ cursorIs(s, e, run, EntryOrder(s, e))

\* While the cursor is on the list, it is at the innermost middleware in progress.
CursorAtInnermostActive(s, e, run, entered) ==
    (run # <<>> /\ engines[e].i >= 0) => engines[e].i = Last(run)

\* The cursor is at the innermost middleware entered so far, or -1 once the
\* handler was invoked; the innermost one in progress is that one or, when that
\* one has returned, one further up the list.
CursorAtInnermostEntered(s, e, run, entered) ==
    /\ entered # <<>> =>
          engines[e].i = IF \E p \in Pos(s) : Is(s, p, "H", e) THEN 0 - 1
                         ELSE Last(entered)
    /\ run # <<>> =>
          /\ engines[e].i <= Last(run)
          /\ (Last(run) = Last(entered) /\ ~\E p \in Pos(s) : Is(s, p, "H", e))
                => engines[e].i = Last(run)

\* C30: if every middleware calls next() at most once, the middlewares in
\* progress are always a contiguous run m(N-1), ..., m(k), entered in that order
\* and returned in the reverse order, the middleware at the cursor is the
\* innermost one in progress, and at most one is in progress per list index.
C30_AsStated == LinearChain(CursorAtInnermostActive)

\* C30 with the cursor at the innermost middleware entered, in progress or not
C30_LinearChain == LinearChain(CursorAtInnermostEntered)

C30_Witness ==
    /\ log["a"] # <<>>
    /\ AtMostOnce("a")
    /\ Len(ListOf(TopEngine("a"))) = 3
    /\ ActiveRun("a", TopEngine("a")) = <<2>>
    /\ EntryOrder("a", TopEngine("a")) = <<2, 1, 0>>
    /\ Exited("a", TopEngine("a"), 0)
    /\ Exited("a", TopEngine("a"), 1)
    /\ engines[TopEngine("a")].i = 0 - 1

\* ---- the terminal handler ----
\* How often the Serve of (e, i) was entered and the handler of e was invoked.
Entries(s, e, i) == Cardinality({p \in Pos(s) : IsAt(s, p, "enter", e, i)})
Invocations(s, e) == Cardinality({p \in Pos(s) : Is(s, p, "H", e)})

\* No Serve of engine e has called next() more than once.
NextAtMostOnce(s, e) == \A i \in Indices(e) : NextCalls(s, e, i) <= 1

\* C31: if every middleware calls next() at most once, then in one request
\* through one Wrap-produced handler each middleware's Serve is invoked at most
\* once and the terminal handler at most once, and the handler is invoked only
\* after all N middlewares have been entered and each has called next() while
\* stopped was false.
C31_HandlerOnce ==
    \A s \in Slots : \A e \in EnginesOf(s) :
        NextAtMostOnce(s, e) =>
            /\ \A i \in Indices(e) : Entries(s, e, i) <= 1
            /\ Invocations(s, e) <= 1
            /\ \A p \in Pos(s) :
                  Is(s, p, "H", e) =>
                      \A i \in Indices(e) :
                          /\ \E q \in 1..(p - 1) : IsAt(s, q, "enter", e, i)
                          /\ \E q \in 1..(p - 1) :
                                IsAt(s, q, "next", e, i) /\ ~Ev(s, q).st

\* A request through three middlewares reached the handler and is over; a
\* middleware called Stop() on the way back.
C31_Witness ==
    /\ ~Running("a")
    /\ \E e \in EnginesOf("a") :
          /\ Len(ListOf(e)) = 3
          /\ NextAtMostOnce("a", e)
          /\ Invocations("a", e) = 1
          /\ \A i \in Indices(e) : Entries("a", e, i) = 1
          /\ \E p \in Pos("a") : IsAt("a", p, "stop", e, 1)

\* The next() call at position p is a repeated one of its Serve, made while
\* stopped was false after the handler of its engine had been invoked.
NextAfterCompletion(s, p, e) ==
    /\ Is(s, p, "next", e)
    /\ ~Ev(s, p).st
    /\ \E q \in 1..(p - 1) : IsAt(s, q, "next", e, Ev(s, p).i)
    /\ \E q \in 1..(p - 1) : Is(s, q, "H", e)

\* C32: the continuation is not single-use: a middleware that calls next() a
\* second time, after its first call drove the chain to completion and with
\* nobody having called Stop, decrements the cursor again and has the terminal
\* handler invoked a second time in the same request, and no downstream
\* middleware is run again.
C32_NextAgain ==
    \A s \in Slots : \A e \in EnginesOf(s) : \A p \in Pos(s) :
        NextAfterCompletion(s, p, e) =>
            /\ p < Len(log[s])
            /\ Is(s, p + 1, "H", e)
            /\ Cardinality({q \in 1..(p + 1) : Is(s, q, "H", e)}) >= 2
            /\ engines[e].i <= 0 - 2
            /\ engines[e].i = Len(ListOf(e)) - 1 - Decrements(s, e, Len(log[s]))
            /\ \A i \in Indices(e) : Entries(s, e, i) <= 1

\* The outermost of two middlewares called next() again after the request had
\* been through the handler; the handler ran twice, each middleware once.
C32_Witness ==
    /\ ~Running("a")
    /\ \E e \in EnginesOf("a") :
          /\ Len(ListOf(e)) = 2
          /\ NextCalls("a", e, 1) = 2
          /\ \E p \in Pos("a") : NextAfterCompletion("a", p, e)
          /\ Invocations("a", e) = 2
          /\ Entries("a", e, 0) = 1
          /\ Entries("a", e, 1) = 1
          /\ ~Happened("a", "stop")

\* ---- panicRecovery without a panic ----
\* The Serve of a panicRecovery entered at position p returned at position q,
\* and nothing panicked in between.
QuietRecovery(s, p, q) ==
    /\ p < q
    /\ Ev(s, p).t = "enter" /\ Ev(s, p).x = "recovery"
    /\ IsAt(s, q, "exit", Ev(s, p).e, Ev(s, p).i)
    /\ \A r \in p..q : Ev(s, r).t # "panic"

\* Whether Gear g was stopped by what happened up to position p: only Stop()
\* called by user code and the deferred function of a recovery stop a Gear.
StoppedBy(s, p, g) ==
    \E r \in 1..p : Ev(s, r).t \in {"stop", "recovered"} /\ Ev(s, r).g = g

\* The panics recovered while serving the requests.
Recoveries ==
    UNION {{<<s, p>> : p \in {q \in Pos(s) : Ev(s, q).t = "recovered"}} : s \in Slots}

\* The response statuses written to the transport's writers.
Statuses == UNION {{<<w, k>> : k \in DOMAIN written[w]} : w \in DOMAIN written}

\* C36: the panic-recovery middleware is transparent when nothing downstream
\* panics: it calls next() exactly once, writes no log record and no response
\* status, and leaves stopped exactly as the downstream chain left it.
C36_RecoveryTransparent ==
    /\ \A s \in Slots : \A p \in Pos(s), q \in Pos(s) :
          QuietRecovery(s, p, q) =>
              LET e == Ev(s, p).e
                  i == Ev(s, p).i
                  g == Ev(s, p).g
              IN  /\ Cardinality({r \in p..q : IsAt(s, r, "next", e, i)}) = 1
                  /\ ~\E r \in p..q : Ev(s, r).t = "recovered"
                  /\ Ev(s, q).st = StoppedBy(s, q - 1, g)
                  /\ q < Len(log[s]) =>
                        (Ev(s, q + 1).g = g => Ev(s, q + 1).st = Ev(s, q).st)
                  /\ q = Len(log[s]) => gears[g].stopped = Ev(s, q).st
    \* a record and a status are written for each recovered panic, and no other
    /\ Len(errlog) = Cardinality(Recoveries)
    /\ Cardinality(Statuses) = Cardinality(Recoveries)
    /\ \A sp \in Recoveries : sp[2] > 1 /\ Ev(sp[1], sp[2] - 1).t = "panic"

\* A request went through a func behind a panicRecovery and is over: the func
\* called Stop() and next(), nothing panicked, and the request is stopped.
C36_Witness ==
    /\ ~Running("a")
    /\ log["a"] # <<>>
    /\ ListOf(TopEngine("a")) = <<"func", "recovery">>
    /\ \E p \in Pos("a"), q \in Pos("a") :
          /\ QuietRecovery("a", p, q)
          /\ q = Len(log["a"])
          /\ Ev("a", q).st
    /\ errlog = <<>>
    /\ written[GearOf("a").W] = <<>>
    /\ GearOf("a").stopped

\* ---- groups of routes ----
HandlerNo(h) == IF h = "top" THEN 1 ELSE 2
GroupHandler(h) == IF h = "top" THEN "leaf" ELSE "page"

\* NewGroup(prefix, mux, middlewares...): &Group{mux, prefix, middlewares}
NewGroup(kind) ==
    /\ nreq = 0
    /\ Len(groups) < MaxGroups
    /\ LET a == Args(kind, [o |-> "group", id |-> Len(groups) + 1])
       IN  /\ arrays' = a.arrays
           /\ groups' = Append(groups, [middlewares |-> a.slice, parent |-> 0,
                                        own |-> Elems(a.arrays, a.slice)])
    /\ UNCHANGED <<routes, wrapped, loggerOpt, incoming, gears, engines, stack, log,
                   errlog, written, outcomes, nreq, repeats, packages>>

\* parent.Group(prefix, middlewares...):
\* &Group{parent.mux, path.Join(...), append(middlewares, parent.middlewares...)}
SubGroup(parent, kind) ==
    /\ nreq = 0
    /\ Len(groups) < MaxGroups
    /\ parent \in 1..Len(groups)
    /\ LET a == Args(kind, [o |-> "group", id |-> Len(groups) + 1])
           r == append(a.arrays, a.slice, Elems(a.arrays, groups[parent].middlewares))
       IN  /\ arrays' = r.arrays
           /\ groups' = Append(groups, [middlewares |-> r.slice, parent |-> parent,
                                        own |-> Elems(a.arrays, a.slice)])
    /\ UNCHANGED <<routes, wrapped, loggerOpt, incoming, gears, engines, stack, log,
                   errlog, written, outcomes, nreq, repeats, packages>>

\* group.Handle(pattern, handler, middlewares...): registers
\* Wrap(handler, append(middlewares, group.middlewares...)...) with the mux.
\* The closure of Wrap keeps the slice; its elements are read when a request runs.
Handle(gr, h, kind) ==
    /\ nreq = 0
    /\ gr \in 1..Len(groups)
    /\ ~routes[h].registered
    /\ LET a == Args(kind, [o |-> "pattern", id |-> HandlerNo(h)])
           r == append(a.arrays, a.slice, Elems(a.arrays, groups[gr].middlewares))
       IN  /\ arrays' = r.arrays
           /\ routes' = [routes EXCEPT ![h] =
                            [registered |-> TRUE, slice |-> r.slice, group |-> gr,
                             own |-> Elems(a.arrays, a.slice)]]
           /\ wrapped' = [wrapped EXCEPT ![h] =
                            [middlewares |-> [k \in 1..r.slice.len |-> "func"],
                             handler |-> GroupHandler(h)]]
    /\ UNCHANGED <<groups, loggerOpt, incoming, gears, engines, stack, log,
                   errlog, written, outcomes, nreq, repeats, packages>>

\* The mux hands a request to the handler registered for its pattern.
Dispatch(s, h) ==
    /\ ~Running(s)
    /\ nreq < 1
    /\ routes[h].registered
    /\ LET c == WrapCall(h, nreq + 1, [id |-> nreq + 1, gear |-> NoGear, ctx |-> NoValues])
       IN  /\ gears' = c.gears
           /\ engines' = c.engines
           /\ stack' = [stack EXCEPT ![s] = c.push]
           /\ log' = [log EXCEPT ![s] = c.events]
           /\ outcomes' = Finish(c.push, "returned")
    /\ nreq' = nreq + 1
    /\ repeats' = [repeats EXCEPT ![s] = 0]
    /\ UNCHANGED <<static, wrapped, loggerOpt, incoming, errlog, written>>

InitGroup ==
    /\ wrapped = [h \in Handlers |-> [middlewares |-> <<>>, handler |-> GroupHandler(h)]]
    /\ gears = <<>>
    /\ engines = <<>>
    /\ stack = [s \in Slots |-> <<>>]
    /\ log = [s \in Slots |-> <<>>]
    /\ errlog = <<>>
    /\ written = [w \in 1..MaxRequests |-> <<>>]
    /\ outcomes = <<>>
    /\ nreq = 0
    /\ repeats = [s \in Slots |-> 0]
    /\ loggerOpt = NilOptions
    /\ incoming = CurlRequest
    /\ \E capacity \in 1..MaxCap : Ungrouped(capacity)
    /\ NoInterceptor
    /\ NoValidator
    /\ EncodingInitialized
    /\ NoMapDecoding

NextGroup ==
    \/ \E kind \in ArgKinds : NewGroup(kind)
    \/ \E parent \in 1..MaxGroups, kind \in ArgKinds : SubGroup(parent, kind)
    \/ \E gr \in 1..MaxGroups, h \in Handlers, kind \in ArgKinds : Handle(gr, h, kind)
    \/ \E h \in Handlers : Dispatch("a", h)
    \/ CallNext("a", 0)
    \/ Return("a")

SpecGroup == InitGroup /\ [][NextGroup]_vars

\* The handler the request of goroutine s was routed to.
RoutedTo(s) == CHOOSE h \in Handlers : wrapped[h].handler = engines[Ev(s, 1).e].handler

\* The groups from the outermost one down to gr.
RECURSIVE Ancestry(_)
Ancestry(gr) ==
    (IF groups[gr].parent = 0 THEN <<>> ELSE Ancestry(groups[gr].parent)) \o <<gr>>

\* What the registration of h was made from, in the order the claim gives: the
\* middlewares of the outermost group, ..., of the innermost group, of the pattern.
Precedence(h) ==
    LET RECURSIVE Flat(_)
        Flat(path) == IF path = <<>> THEN <<>>
                      ELSE groups[path[1]].own \o Flat(Tail(path))
    IN  Flat(Ancestry(routes[h].group)) \o routes[h].own

\* The middlewares whose Serve the request of s entered, in order of entry.
ServedBy(s) ==
    LET h == RoutedTo(s)
        evs == SelectSeq(log[s], LAMBDA ev : ev.t = "enter")
    IN  [k \in 1..Len(evs) |-> At(Elems(arrays, routes[h].slice), evs[k].i)]

\* Every call that spread the program's slice passed one without spare capacity.
NoSpareCapacity == SharedSlice.cap = SharedSlice.len

Served(s) ==
    /\ log[s] # <<>>
    /\ ~Running(s)
    /\ WellBehaved(s, Ev(s, 1).e)

\* C21: a request to a handler registered through a group runs the middlewares
\* of the outermost group first, then those of each sub-group, then the ones
\* passed to Handle, then the handler.
C21_AsStated ==
    \A s \in Slots :
        Served(s) => /\ ServedBy(s) = Precedence(RoutedTo(s))
                     /\ Last(log[s]).t \in {"exit", "Hexit"}
                     /\ \E p \in Pos(s) : Ev(s, p).t = "H"

\* C21 for programs that pass no slice with spare capacity to Handle or Group
C21_GroupPrecedence ==
    NoSpareCapacity => C21_AsStated

C21_Witness ==
    /\ Served("a")
    /\ NoSpareCapacity
    /\ Len(groups) = 2
    /\ routes[RoutedTo("a")].group = 2
    /\ groups[2].parent = 1
    /\ Len(ServedBy("a")) = 3
    /\ routes["top"].registered /\ routes["inner"].registered

\* ---- intercepted paths ----
PrefixChars == {"/", "a", "."}
PathChars == {"/", "a", "b"}
Prefixes == SeqsUpTo(PrefixChars, MaxPrefixLen)
Paths == {p \in SeqsUpTo(PathChars, MaxPathLen) : p # <<>> /\ p[1] = "/"}
InterceptLists ==
    {l \in SeqsUpTo({"func", "interceptor"}, MaxInterceptMw) :
        Cardinality({k \in 1..Len(l) : l[k] = "interceptor"}) = 1}

InitIntercept ==
    /\ wrapped \in {[top |-> [middlewares |-> l, handler |-> "leaf"],
                     inner |-> [middlewares |-> <<>>, handler |-> "leaf"]] :
                        l \in InterceptLists}
    /\ gears = <<>>
    /\ engines = <<>>
    /\ stack = [s \in Slots |-> <<>>]
    /\ log = [s \in Slots |-> <<>>]
    /\ errlog = <<>>
    /\ written = [w \in 1..MaxRequests |-> <<>>]
    /\ outcomes = <<>>
    /\ nreq = 0
    /\ repeats = [s \in Slots |-> 0]
    /\ loggerOpt = NilOptions
    /\ incoming = CurlRequest
    /\ NoGroups
    /\ NoValidator
    /\ EncodingInitialized
    /\ NoMapDecoding
    /\ interceptor \in {NewPathInterceptor(prefix) : prefix \in Prefixes}
    /\ urlPath \in Paths

NextIntercept ==
    \/ StartRequest("a", 1)
    \/ CallNext("a", 0)
    \/ CallStop("a")
    \/ Return("a")
    \/ InterceptorServe("a")

SpecIntercept == InitIntercept /\ [][NextIntercept]_vars

\* The Serve of the PathInterceptor was entered at position p.
InterceptorAt(s, p) == Ev(s, p).t = "enter" /\ Ev(s, p).x = "interceptor"
\* An event of the handler h of the interceptor entered at position p.
ByIntercepted(s, p, q, t) ==
    /\ q > p
    /\ IsAt(s, q, t, Ev(s, p).e, Ev(s, p).i)
    /\ Ev(s, q).x = "func"
\* next() calls made by the interceptor itself
OwnNexts(s, p) ==
    {q \in Pos(s) : IsAt(s, q, "next", Ev(s, p).e, Ev(s, p).i) /\ Ev(s, q).x = "interceptor"}
InterceptorDone(s, p) ==
    \E q \in Pos(s) : IsAt(s, q, "exit", Ev(s, p).e, Ev(s, p).i) /\ Ev(s, q).x = "interceptor"
DownstreamOf(s, p, q) ==
    /\ Ev(s, q).e = Ev(s, p).e
    /\ \/ Ev(s, q).t = "H"
       \/ (Ev(s, q).t = "enter" /\ Ev(s, q).i < Ev(s, p).i)

\* What PathInterceptor.Serve does around its handler, for a given meaning of
\* "the path matches".
InterceptsWhen(matches) ==
    \A s \in Slots : \A p \in Pos(s) :
        InterceptorAt(s, p) =>
            \* h runs exactly for matching paths
            /\ p < Len(log[s]) => (Ev(s, p + 1).t = "intercept" <=> matches)
            \* no match: h does not run, and one next() call continues the chain
            /\ (~matches /\ InterceptorDone(s, p)) =>
                    /\ ~\E q \in Pos(s) : Ev(s, q).t = "intercept"
                    /\ ~\E q \in Pos(s) : ByIntercepted(s, p, q, "next")
                    /\ Cardinality(OwnNexts(s, p)) = 1
                    /\ \E q \in OwnNexts(s, p) :
                          ~Ev(s, q).st => (q < Len(log[s]) /\ DownstreamOf(s, p, q + 1))
            \* match and h calls Stop(): nothing downstream is invoked from then
            \* on, and nothing at all if h had not called next() before
            /\ \A q \in Pos(s) :
                  (matches /\ ByIntercepted(s, p, q, "stop")) =>
                      /\ \A r \in Pos(s) : r > q => ~Invoked(s, r)
                      /\ (~\E r \in 1..q : ByIntercepted(s, p, r, "next"))
                            => \A r \in Pos(s) : ~DownstreamOf(s, p, r)

CleanedPrefix == Clean(interceptor.given)

\* C22: PathInterceptor(prefix, h) runs h exactly for requests whose path equals
\* the cleaned prefix or starts with the cleaned prefix followed by "/"; for
\* another request h is not run and the chain continues through exactly one
\* next() call; for a matching request where h calls Stop(), no downstream
\* middleware and not the terminal handler run.
C22_AsStated ==
    InterceptsWhen(\/ urlPath = CleanedPrefix
                   \/ HasPrefix(urlPath, CleanedPrefix \o <<"/">>))

\* C22 with the root prefix set apart: a cleaned prefix "/" matches every path
\* that starts with "/"
C22_PathInterceptor ==
    InterceptsWhen(IF CleanedPrefix = <<"/">> THEN HasPrefix(urlPath, <<"/">>)
                   ELSE \/ urlPath = CleanedPrefix
                        \/ HasPrefix(urlPath, CleanedPrefix \o <<"/">>))

C22_Witness ==
    /\ ~Running("a")
    /\ log["a"] # <<>>
    /\ wrapped["top"].middlewares = <<"func", "interceptor">>
    /\ interceptor.given = <<"/", ".", ".">>
    /\ urlPath = <<"/", "a", "/", "b">>
    /\ \E p \in Pos("a"), q \in Pos("a") :
          /\ InterceptorAt("a", p)
          /\ ByIntercepted("a", p, q, "stop")
          /\ InterceptorDone("a", p)
    /\ ~\E r \in Pos("a") : Ev("a", r).t \in {"H"} \/ (Ev("a", r).t = "enter" /\ Ev("a", r).i = 0)

\* The interceptor entered at position p ran its handler h, has returned, and
\* nobody called Stop() during the request; every middleware downstream of it
\* that was entered called next() exactly once.
InterceptedQuietly(s, p) ==
    /\ InterceptorAt(s, p)
    /\ \E q \in Pos(s) : q > p /\ IsAt(s, q, "intercept", Ev(s, p).e, Ev(s, p).i)
    /\ InterceptorDone(s, p)
    /\ ~Happened(s, "stop")
    /\ \A j \in 0..(Ev(s, p).i - 1) :
          Entered(s, Ev(s, p).e, j) => NextCalls(s, Ev(s, p).e, j) = 1

\* next() calls made by the handler h of the interceptor entered at position p
NextsOfIntercepted(s, p) == {q \in Pos(s) : ByIntercepted(s, p, q, "next")}

\* What a request with a matching path does downstream of the interceptor,
\* given how often the terminal handler is invoked when h called next() once,
\* and whether downstream runs when h returned without next().
InterceptorLaw(invocations, runsWithoutNext) ==
    \A s \in Slots : \A p \in Pos(s) :
        InterceptedQuietly(s, p) =>
            LET e == Ev(s, p).e
                i == Ev(s, p).i
                downstream == \E r \in Pos(s) : DownstreamOf(s, p, r)
            IN  /\ Cardinality(NextsOfIntercepted(s, p)) = 1 =>
                      /\ \A j \in 0..(i - 1) : Entries(s, e, j) = 1
                      /\ Invocations(s, e) = invocations
                /\ Cardinality(NextsOfIntercepted(s, p)) = 0 =>
                      /\ downstream <=> runsWithoutNext
                      /\ downstream =>
                            /\ \A j \in 0..(i - 1) : Entries(s, e, j) = 1
                            /\ Invocations(s, e) = 1

InitTwin == Built(MaxConcMw, 0, {"leaf"})

NextTwin ==
    \E s \in Slots :
        /\ s = "b" => (log["a"] # <<>> /\ ~Running("a"))
        /\ \/ StartRequest(s, Cardinality(Slots))
           \/ CallNext(s, MaxRepeat)
           \/ CallStop(s)
           \/ Return(s)

SpecTwin == InitTwin /\ [][NextTwin]_vars

\* What the user code of the request of s did, in order: its next() and Stop()
\* calls and its returns.
Decisions(s) ==
    LET evs == SelectSeq(log[s], LAMBDA ev : ev.t \in {"next", "stop", "exit", "Hexit"})
    IN  [k \in 1..Len(evs) |-> IF evs[k].t \in {"exit", "Hexit"} THEN "return"
                               ELSE evs[k].t]

\* What happened in the run of s, in order: Serve entries, handler invocations,
\* calls and returns, each with the list index and the stopped flag it met.
Observed(s) ==
    [k \in 1..Len(log[s]) |-> [t |-> log[s][k].t, i |-> log[s][k].i,
                               st |-> log[s][k].st, x |-> log[s][k].x]]

\* C23: two runs with the same middleware list, the same terminal handler and
\* the same decisions of the user code produce the same sequence of Serve
\* entries, handler invocations and returns, and the same cursor and stopped
\* values.
C23_Deterministic ==
    \A s \in Slots, t \in Slots :
        (log[s] # <<>> /\ log[t] # <<>> /\ Decisions(s) = Decisions(t))
            => /\ Observed(s) = Observed(t)
               /\ engines[Ev(s, 1).e].i = engines[Ev(t, 1).e].i
               /\ gears[Ev(s, 1).g].stopped = gears[Ev(t, 1).g].stopped
               /\ Len(stack[s]) = Len(stack[t])

C23_Witness ==
    /\ ~Running("a") /\ ~Running("b")
    /\ log["a"] # <<>> /\ log["b"] # <<>>
    /\ Decisions("a") = Decisions("b")
    /\ Len(ListOf(1)) = 2
    /\ Happened("a", "stop")
    /\ NextCalls("a", 1, 1) = 2
    /\ Happened("a", "H")

\* ---- the validator registry ----
\* What the engine keeps: nothing of it changes in the calls to the packages.
engine == <<wrapped, gears, engines, stack, log, errlog, written, outcomes, nreq, repeats,
            loggerOpt, incoming>>

\* Register that keeps the validator registered first
Register_Once(v) ==
    /\ Len(validated) < MaxValidatorCalls
    /\ IF v = NilValidator
       THEN /\ validated' = Append(validated, Call("Register", v, Panicked))
            /\ UNCHANGED validator
       ELSE /\ validator' = IF validator = NilValidator THEN v ELSE validator
            /\ validated' = Append(validated, Call("Register", v, Returned(FALSE, "nil")))
    /\ UNCHANGED <<engine, decodeArgs, decodeRet, arrays, groups, routes, interceptor, urlPath,
                   JSONBodyDecoder, bodyDecoders, bodyCalls>>

\* func Register(v Validator)
Register(v) ==
    /\ Len(validated) < MaxValidatorCalls
    /\ IF v = NilValidator
       THEN /\ validated' = Append(validated, Call("Register", v, Panicked))
            /\ UNCHANGED validator
       ELSE /\ validator' = v
            /\ validated' = Append(validated, Call("Register", v, Returned(FALSE, "nil")))
    /\ UNCHANGED <<engine, decodeArgs, decodeRet, arrays, groups, routes, interceptor, urlPath,
                   JSONBodyDecoder, bodyDecoders, bodyCalls>>

\* func Registered() bool
Registered ==
    /\ Len(validated) < MaxValidatorCalls
    /\ validated' = Append(validated, Call("Registered", "",
                                           Returned(validator # NilValidator, "nil")))
    /\ UNCHANGED <<engine, decodeArgs, decodeRet, arrays, groups, routes, interceptor, urlPath, validator, JSONBodyDecoder, bodyDecoders, bodyCalls>>

\* func MustRegistered()
MustRegistered ==
    /\ Len(validated) < MaxValidatorCalls
    /\ validated' = Append(validated, Call("MustRegistered", "",
                               IF validator # NilValidator THEN Returned(FALSE, "nil")
                               ELSE Panicked))
    /\ UNCHANGED <<engine, decodeArgs, decodeRet, arrays, groups, routes, interceptor, urlPath, validator, JSONBodyDecoder, bodyDecoders, bodyCalls>>

\* func Struct(s any) (validated bool, err error)
Struct(st) ==
    /\ Len(validated) < MaxValidatorCalls
    /\ validated' = Append(validated, Call("Struct", st,
                               IF validator = NilValidator THEN Returned(FALSE, "nil")
                               ELSE Returned(TRUE, Verdict(validator, st))))
    /\ UNCHANGED <<engine, decodeArgs, decodeRet, arrays, groups, routes, interceptor, urlPath, validator, JSONBodyDecoder, bodyDecoders, bodyCalls>>

InitValidator == Built(0, 0, {"leaf"})

NextValidator ==
    \/ \E v \in Validators \cup {NilValidator} : Register(v)
    \/ Registered
    \/ MustRegistered
    \/ \E st \in Structs : Struct(st)

SpecValidator == InitValidator /\ [][NextValidator]_vars

\* The validator passed to the last Register call with a non-nil argument among
\* the first k calls, nil if there is none.
RECURSIVE LastRegistered(_)
LastRegistered(k) ==
    IF k = 0 THEN NilValidator
    ELSE IF validated[k].op = "Register" /\ validated[k].arg # NilValidator
    THEN validated[k].arg
    ELSE LastRegistered(k - 1)

\* C24: Registered() is true iff a Register(v) with non-nil v has completed;
\* Struct(s) returns (false, nil) when no validator is registered and otherwise
\* (true, err) with err the result of the validator registered last;
\* Register(nil) panics and leaves the registered validator as it is;
\* MustRegistered panics iff none is registered.
C24_Registry ==
    /\ validator = LastRegistered(Len(validated))
    /\ \A k \in 1..Len(validated) :
          LET c == validated[k]
              v == LastRegistered(k - 1)
          IN  /\ c.op = "Register" => (c.ret.panicked <=> c.arg = NilValidator)
              /\ c.op = "Registered" => c.ret = Returned(v # NilValidator, "nil")
              /\ c.op = "MustRegistered" => (c.ret.panicked <=> v = NilValidator)
              /\ c.op = "Struct" =>
                    c.ret = IF v = NilValidator THEN Returned(FALSE, "nil")
                            ELSE Returned(TRUE, Verdict(v, c.arg))

C24_Witness ==
    /\ Len(validated) = 4
    /\ validated[1] = Call("Register", "v1", Returned(FALSE, "nil"))
    /\ validated[2] = Call("Register", "v2", Returned(FALSE, "nil"))
    /\ validated[3] = Call("Register", NilValidator, Panicked)
    /\ validated[4] = Call("Struct", "good", Returned(TRUE, "v2: invalid"))

\* ---- decoding bodies ----
\* What a call to the body decoding did: the decoder it used (nil if none), the
\* error it returned and whether the body was handed to a decoder.
BodyResult(used, err, read) == [used |-> used, err |-> err, read |-> read]
BodyCall(op, mime, decoder, body, ret) ==
    [op |-> op, mime |-> mime, decoder |-> decoder, body |-> body, ret |-> ret]
NoResult == BodyResult(NilDecoder, NilErr, FALSE)

\* The program assigns to the package variable: encoding.JSONBodyDecoder = decoder
SetJSONBodyDecoder(decoder) ==
    /\ Len(bodyCalls) < MaxBodyCalls
    /\ JSONBodyDecoder' = decoder
    /\ bodyCalls' = Append(bodyCalls, BodyCall("SetJSONBodyDecoder", "", decoder, "", NoResult))
    /\ UNCHANGED <<engine, decodeArgs, decodeRet, arrays, groups, routes, interceptor, urlPath, validator,
                   validated, bodyDecoders>>

\* RegisterBodyDecoder that keeps a decoder registered before
RegisterBodyDecoder_KeepsFirst(mime, decoder) ==
    /\ Len(bodyCalls) < MaxBodyCalls
    /\ bodyDecoders' = [bodyDecoders EXCEPT ![mime] = IF @ = NilDecoder THEN decoder ELSE @]
    /\ bodyCalls' = Append(bodyCalls, BodyCall("RegisterBodyDecoder", mime, decoder, "", NoResult))
    /\ UNCHANGED <<engine, decodeArgs, decodeRet, arrays, groups, routes, interceptor, urlPath, validator,
                   validated, JSONBodyDecoder>>

\* func RegisterBodyDecoder(mime string, decoder BodyDecoder)
RegisterBodyDecoder(mime, decoder) ==
    /\ Len(bodyCalls) < MaxBodyCalls
    /\ bodyDecoders' = [bodyDecoders EXCEPT ![mime] = decoder]
    /\ bodyCalls' = Append(bodyCalls, BodyCall("RegisterBodyDecoder", mime, decoder, "", NoResult))
    /\ UNCHANGED <<engine, decodeArgs, decodeRet, arrays, groups, routes, interceptor, urlPath, validator,
                   validated, JSONBodyDecoder>>

\* func DecodeBody(r *http.Request, decoder BodyDecoder, v any) (err error), for
\* a request with the Content-Type mime and the given body; Gear.DecodeBody
\* calls it with a nil decoder.
DecodeBody(mime, decoder, body) ==
    /\ Len(bodyCalls) < MaxBodyCalls
    /\ LET sel == IF decoder = NilDecoder THEN selectBodyDecoder(mime)
                  ELSE [decoder |-> decoder, err |-> NilErr]
           ret == IF sel.err # NilErr THEN BodyResult(NilDecoder, sel.err, FALSE)
                  ELSE BodyResult(sel.decoder, DecoderErr(sel.decoder, body), TRUE)
       IN  bodyCalls' = Append(bodyCalls, BodyCall("DecodeBody", mime, decoder, body, ret))
    /\ UNCHANGED <<engine, decodeArgs, decodeRet, arrays, groups, routes, interceptor, urlPath, validator,
                   validated, JSONBodyDecoder, bodyDecoders>>

InitBody == Built(0, 0, {"leaf"})

NextBody ==
    \/ \E decoder \in BodyDecoderValues : SetJSONBodyDecoder(decoder)
    \/ \E mime \in ContentTypes, decoder \in BodyDecoderValues \cup {NilDecoder} :
          RegisterBodyDecoder(mime, decoder)
    \/ \E mime \in ContentTypes, decoder \in {NilDecoder, "custom"}, body \in Bodies :
          DecodeBody(mime, decoder, body)

SpecBody == InitBody /\ [][NextBody]_vars

\* The decoder registered last for mime among the first k calls: the one of the
\* last RegisterBodyDecoder call for it, else the built-in one, else nil.
RECURSIVE RegisteredFor(_, _)
RegisteredFor(mime, k) ==
    IF k = 0
    THEN IF mime = MIME_JSON THEN BuiltinJSON
         ELSE IF mime \in {MIME_XML, MIME_TEXT_XML} THEN BuiltinXML
         ELSE NilDecoder
    ELSE IF bodyCalls[k].op = "RegisterBodyDecoder" /\ bodyCalls[k].mime = mime
    THEN bodyCalls[k].decoder
    ELSE RegisteredFor(mime, k - 1)

\* The value of the variable JSONBodyDecoder after the first k calls.
RECURSIVE VariableAfter(_)
VariableAfter(k) ==
    IF k = 0 THEN BuiltinJSON
    ELSE IF bodyCalls[k].op = "SetJSONBodyDecoder" THEN bodyCalls[k].decoder
    ELSE VariableAfter(k - 1)

\* The k-th call is a DecodeBody without a decoder argument for a JSON request,
\* made after the program replaced JSONBodyDecoder and registered nothing for JSON.
AfterReplacement(k) ==
    /\ bodyCalls[k].op = "DecodeBody"
    /\ bodyCalls[k].decoder = NilDecoder
    /\ bodyCalls[k].mime = MIME_JSON
    /\ VariableAfter(k - 1) # BuiltinJSON
    /\ \A j \in 1..(k - 1) :
          ~(bodyCalls[j].op = "RegisterBodyDecoder" /\ bodyCalls[j].mime = MIME_JSON)

\* C25: after the program has replaced the package variable JSONBodyDecoder, a
\* DecodeBody with a nil decoder argument on a request with Content-Type
\* application/json uses the replacement and returns the replacement's error.
C25_AsStated ==
    \A k \in 1..Len(bodyCalls) :
        AfterReplacement(k) =>
            /\ bodyCalls[k].ret.used = VariableAfter(k - 1)
            /\ bodyCalls[k].ret.err = DecoderErr(VariableAfter(k - 1), bodyCalls[k].body)

\* What such a call does instead: it uses the decoder the map was made with
C25_ReplacementIgnored ==
    \A k \in 1..Len(bodyCalls) :
        AfterReplacement(k) =>
            /\ bodyCalls[k].ret.used = BuiltinJSON
            /\ bodyCalls[k].ret.err = DecoderErr(BuiltinJSON, bodyCalls[k].body)

C25_Witness ==
    /\ Len(bodyCalls) = 2
    /\ bodyCalls[1].op = "SetJSONBodyDecoder" /\ bodyCalls[1].decoder = "custom"
    /\ AfterReplacement(2)
    /\ bodyCalls[2].body = "{}"
    /\ JSONBodyDecoder = "custom"

\* C26: DecodeBody with a nil decoder uses the decoder registered last (built in
\* or by RegisterBodyDecoder, which overwrites) for the exact Content-Type value
\* of the request; if there is none it returns UnknownMIMEError with that value
\* and reads no body; with a decoder argument it uses that one, whatever the
\* registry and the Content-Type are.
C26_DecodeBody ==
    /\ \A mime \in ContentTypes : bodyDecoders[mime] = RegisteredFor(mime, Len(bodyCalls))
    /\ \A k \in 1..Len(bodyCalls) :
          LET c == bodyCalls[k]
              registered == RegisteredFor(c.mime, k - 1)
          IN  c.op = "DecodeBody" =>
                  IF c.decoder # NilDecoder
                  THEN c.ret = BodyResult(c.decoder, DecoderErr(c.decoder, c.body), TRUE)
                  ELSE IF registered = NilDecoder
                  THEN c.ret = BodyResult(NilDecoder, UnknownMIMEError(c.mime), FALSE)
                  ELSE c.ret = BodyResult(registered, DecoderErr(registered, c.body), TRUE)

C26_Witness ==
    /\ Len(bodyCalls) = 3
    /\ bodyCalls[1] = BodyCall("RegisterBodyDecoder", MIME_JSON, "custom", "", NoResult)
    /\ bodyCalls[2] = BodyCall("RegisterBodyDecoder", MIME_JSON, BuiltinXML, "", NoResult)
    /\ bodyCalls[3] = BodyCall("DecodeBody", MIME_JSON, NilDecoder, "{}",
                               BodyResult(BuiltinXML, Err("xml", "EOF"), TRUE))

\* ---- decoding maps ----
\* encoding.DefaultFormDecoder.DecodeMap(values, v), called once.
DecodeMap ==
    /\ ~decodeRet.done
    /\ LET r == decodeMap(decodeArgs.values, decodeArgs.v)
       IN  decodeRet' = [done |-> TRUE, err |-> r.err, v |-> r.v]
    /\ UNCHANGED <<engine, decodeArgs, arrays, groups, routes, interceptor, urlPath,
                   validator, validated, JSONBodyDecoder, bodyDecoders, bodyCalls>>

InitMap ==
    /\ wrapped = [h \in Handlers |-> [middlewares |-> <<>>, handler |-> "leaf"]]
    /\ gears = <<>>
    /\ engines = <<>>
    /\ stack = [s \in Slots |-> <<>>]
    /\ log = [s \in Slots |-> <<>>]
    /\ errlog = <<>>
    /\ written = [w \in 1..MaxRequests |-> <<>>]
    /\ outcomes = <<>>
    /\ nreq = 0
    /\ repeats = [s \in Slots |-> 0]
    /\ loggerOpt = NilOptions
    /\ incoming = CurlRequest
    /\ NoGroups
    /\ NoInterceptor
    /\ NoValidator
    /\ EncodingInitialized
    /\ decodeArgs \in [values : Values, v : Dests]
    /\ decodeRet = NotReturned

NextMap == DecodeMap

SpecMap == InitMap /\ [][NextMap]_vars

\* The first value of a list, "" for an empty one
First(list) == IF list = <<>> THEN "" ELSE list[1]

\* What a field that is decoded holds afterwards, given the value list of its
\* key and the elements a slice is taken to start with.
FieldFrom(before, list, base) ==
    CASE before.kind = "[]string" -> [before.val EXCEPT !.strs = base.strs \o list]
      [] before.kind = "[]int" ->
           [before.val EXCEPT
               !.ints = base.ints \o [i \in 1..Len(list) |-> IF list[i] = "1" THEN 1 ELSE 0]]
      [] before.kind = "string" -> [before.val EXCEPT !.str = First(list)]
      [] before.kind = "int" ->
           [before.val EXCEPT !.int = IF First(list) = "1" THEN 1 ELSE 0]
      [] before.kind = "*int" ->
           [before.val EXCEPT !.isNil = FALSE, !.int = IF First(list) = "1" THEN 1 ELSE 0]
      [] before.kind = "bool" -> [before.val EXCEPT !.bool = First(list) # "0"]

\* A call that decoded into a struct and returned nil leaves every field the
\* decoder passes over as it was and every other field decoded from the list
\* of its key.
StructLaw(passedOver(_), base(_)) ==
    (decodeRet.done /\ decodeArgs.v.kind = "struct" /\ decodeRet.err = "nil") =>
        /\ decodeRet.v.kind = "struct"
        /\ Len(decodeRet.v.fields) = Len(decodeArgs.v.fields)
        /\ \A i \in DOMAIN decodeArgs.v.fields :
              LET before == decodeArgs.v.fields[i]
                  after == decodeRet.v.fields[i]
              IN  /\ [after EXCEPT !.val = before.val] = before
                  /\ after.val =
                        IF passedOver(before) THEN before.val
                        ELSE FieldFrom(before, decodeArgs.values[KeyOf(before)].list,
                                       base(before))

\* A call that decoded into a *map[string][]string returns nil and leaves a
\* map that has every key of values with the list values has for it.
MapLaw ==
    (decodeRet.done /\ decodeArgs.v.kind = "map") =>
        /\ decodeRet.err = "nil"
        /\ ~decodeRet.v.m.isNil
        /\ \A key \in MapKeys :
              decodeArgs.values[key].has =>
                  decodeRet.v.m.entries[key] = decodeArgs.values[key]

\* The fields the decoder leaves unchanged: the field is unexported or
\* embedded, its tag is "-", or values has not its key (tag name, else field
\* name).
LeftUnchanged(field) ==
    \/ field.name # "K" \/ field.anonymous
    \/ field.tag = "-"
    \/ ~decodeArgs.values[IF field.tag # "" THEN field.tag ELSE field.name].has

Empty(field) == ZeroValue
Held(field) == field.val

\* C27 as stated: the default map decoder, decoding values into a struct, sets
\* a slice field to all values of its key in order and a non-slice field from
\* the first value only; a field whose tag is "-", that is unexported, or whose
\* key (tag name, else field name) is absent from values is left unchanged; a
\* bool field whose key is present is true unless the first value parses as
\* false, also for an empty value list; decoding into *map[string][]string
\* yields a map containing every key of values with the same value lists.
\* (Embedded fields are taken as not meant by the statement.)
C27_AsStated == StructLaw(LeftUnchanged, Empty) /\ MapLaw

\* C27, what the code does: the values of the key are appended, in order, to
\* the elements the slice field already holds, so that the field is all values
\* of its key only when it was empty before; the rest is as stated.
C27_DecodeMap == StructLaw(LeftUnchanged, Held) /\ MapLaw

\* A slice field that held an element was decoded from a list of two values.
C27_Witness ==
    /\ decodeRet.done
    /\ decodeRet.err = "nil"
    /\ decodeArgs.v.kind = "struct"
    /\ \E i \in DOMAIN decodeArgs.v.fields :
          LET before == decodeArgs.v.fields[i]
          IN  /\ before.kind = "[]string"
              /\ before.val.strs = <<"old">>
              /\ ~LeftUnchanged(before)
              /\ Len(decodeArgs.values[KeyOf(before)].list) = 2
              /\ Len(decodeRet.v.fields[i].val.strs) = 3

\* ---- a Wrap-produced handler behind another one ----
\* The terminal handler of the top handler is a mux that hands the request to
\* the inner Wrap-produced handler, as the mux of a Group does; both handlers
\* have middlewares, which may call Stop() and may call next() again.
InitNested == Built(MaxNestedMw, MaxNestedMw, {"mux"})

NextNested ==
    \/ StartRequest("a", 1)
    \/ CallNext("a", MaxRepeat)
    \/ CallStop("a")
    \/ Return("a")
    \/ \E own \in BOOLEAN : CallInner("a", own)

SpecNested == InitNested /\ [][NextNested]_vars

\* C34: a Wrap-produced handler invoked from inside another Wrap-produced
\* handler's terminal handler, with the request that already carries a Gear,
\* reuses that same Gear, runs its own middleware list in reverse order with
\* its own fresh cursor, leaves the outer engine's cursor unchanged, and a
\* Stop() made in the inner chain is visible to the outer chain through the
\* shared Gear.
C34_NestedHandler ==
    \A s \in Slots : \A p \in NestedCalls(s) :
        LET outer == TopEngine(s)
            inner == Ev(s, p).e
            before == Decrements(s, outer, p)
        IN  \* the same Gear, and no other one
            /\ Ev(s, p).x = "reused"
            /\ Ev(s, p).g = Ev(s, 1).g
            /\ Len(gears) = 1
            \* an engine of its own, with the cursor of a new engine
            /\ inner # outer
            /\ ListOf(inner) = wrapped["inner"].middlewares
            /\ Ev(s, p).i = FreshCursor(ListOf(inner))
            /\ engines[inner].i = FreshCursor(ListOf(inner)) - Decrements(s, inner, Len(log[s]))
            \* its own list, in reverse order
            /\ (~Active(s, inner) /\ WellBehaved(s, inner))
                  => Trace(s, inner) = ReverseOrder(Len(ListOf(inner)))
            \* the cursor of the outer engine stays where it was while the
            \* inner chain runs, and moves with the outer continuation only
            /\ Active(s, inner) =>
                  engines[outer].i = FreshCursor(ListOf(outer)) - before
            /\ engines[outer].i =
                  FreshCursor(ListOf(outer)) - Decrements(s, outer, Len(log[s]))
            \* Stop() in the inner chain: the outer chain sees stopped
            /\ \A q \in Pos(s) :
                  (q > p /\ Is(s, q, "stop", inner)) =>
                      /\ gears[Ev(s, 1).g].stopped
                      /\ \A r \in Pos(s) :
                            (r > q /\ Ev(s, r).e = outer) =>
                                /\ Ev(s, r).g = Ev(s, q).g
                                /\ Ev(s, r).st
                                /\ ~Invoked(s, r)

\* Behind two outer middlewares the inner handler ran its two middlewares, the
\* second of which called Stop(); then an outer middleware called next() again
\* and found the request stopped.
C34_Witness ==
    /\ ~Running("a")
    /\ Len(wrapped["top"].middlewares) = 2
    /\ \E p \in NestedCalls("a") :
          /\ Len(ListOf(Ev("a", p).e)) = 2
          /\ Entered("a", Ev("a", p).e, 1)
          /\ Entered("a", Ev("a", p).e, 0)
          /\ \E q \in Pos("a") : IsAt("a", q, "stop", Ev("a", p).e, 0)
          /\ \E r \in Pos("a") :
                /\ Is("a", r, "next", TopEngine("a"))
                /\ Ev("a", r).st
          /\ engines[TopEngine("a")].i = 0 - 1

\* ---- context values ----
\* What a call of SetContextValue or of a reading function did: the key, the
\* value set or read, and the Gear that G() gave for the request.
ValueEvent(t, f, key, val, found) ==
    [t |-> t, e |-> f.e, i |-> f.i, g |-> f.g, st |-> gears[f.g].stopped, x |-> key,
     val |-> val, gear |-> found]

\* How many times SetContextValue was called for the request, and the value
\* the next call passes: a call never passes the value of the call before it.
Sets(s) == Len(SelectSeq(log[s], LAMBDA ev : ev.t = "set"))
NewValue(s) == ContextVals[(Sets(s) % Len(ContextVals)) + 1]

\* The running user code calls g.SetContextValue(key, val); the terminal
\* handler does so on G(r).
CallSetContextValue(s, key, val) ==
    /\ Running(s)
    /\ Top(s).k \in {"func", "handler"}
    /\ Sets(s) < MaxContextValues
    /\ LET f == Top(s)
       IN  /\ gears' = [gears EXCEPT ![f.g] = SetContextValue(@, key, val)]
           /\ log' = [log EXCEPT ![s] =
                          Append(@, ValueEvent("set", f, key, val, f.g))]
    /\ UNCHANGED <<static, wrapped, loggerOpt, incoming, engines, stack, errlog, written,
                   outcomes, nreq, repeats>>

\* The running middleware reads g.ContextValue(key) and G(g.R); the running
\* terminal handler reads r.Context().Value(key) and G(r) of the request it
\* was called with.
CallContextValue(s, key) ==
    /\ Running(s)
    /\ Top(s).k \in {"func", "handler"}
    /\ Top(s).calls = 0
    /\ LET f == Top(s)
           val == IF f.k = "handler" THEN Value(f.r.ctx, key)
                  ELSE ContextValue(gears[f.g], key)
           found == IF f.k = "handler" THEN G(f.r) ELSE G(gears[f.g].R)
       IN  /\ stack' = [stack EXCEPT ![s] = SetTop(@, [f EXCEPT !.calls = @ + 1])]
           /\ log' = [log EXCEPT ![s] =
                          Append(@, ValueEvent("get", f, key, val, found.gear))]
    /\ UNCHANGED <<static, wrapped, loggerOpt, incoming, gears, engines, errlog, written,
                   outcomes, nreq, repeats>>

InitContext == Built(MaxContextMw, 0, {"leaf"})

NextContext ==
    \/ StartRequest("a", 1)
    \/ CallNext("a", 0)
    \/ CallStop("a")
    \/ Return("a")
    \/ \E key \in ContextKeys : CallSetContextValue("a", key, NewValue("a"))
    \/ \E key \in ContextKeys : CallContextValue("a", key)

SpecContext == InitContext /\ [][NextContext]_vars

\* The value set last for key among the first p events of the request, nil if
\* none was.
SetBefore(s, p, key) ==
    LET ps == {q \in 1..p : Ev(s, q).t = "set" /\ Ev(s, q).x = key}
    IN  IF ps = {} THEN NilValue
        ELSE Ev(s, CHOOSE q \in ps : \A r \in ps : r <= q).val

\* Where the call in progress at position p was invoked: the latest entry
\* of its Serve, or invocation of the handler, before p.
InvokedAt(s, p) ==
    LET ps == {q \in 1..p : Invoked(s, q) /\ Ev(s, q).e = Ev(s, p).e
                                /\ Ev(s, q).i = Ev(s, p).i}
    IN  CHOOSE q \in ps : \A r \in ps : r <= q

\* The set at position p was made by a middleware before its next(), the read
\* at position q by a middleware or the handler downstream of it, and the key
\* was not set again in between.
SetUpstreamOf(s, p, q) ==
    /\ Ev(s, p).t = "set" /\ Ev(s, p).i >= 0
    /\ Ev(s, q).t = "get" /\ Ev(s, q).e = Ev(s, p).e /\ Ev(s, q).i < Ev(s, p).i
    /\ p < q
    /\ ~\E r \in 1..p : IsAt(s, r, "next", Ev(s, p).e, Ev(s, p).i)
    /\ ~\E r \in (p + 1)..q : Ev(s, r).t = "set" /\ Ev(s, r).x = Ev(s, p).x

\* C35: SetContextValue(key, val) called by a middleware before next() makes
\* val retrievable under key by every downstream middleware (ContextValue) and
\* by the terminal handler (request context), preserves all previously set
\* context values, keeps the Gear association (G(g.R) still returns the same
\* Gear), and changes neither the stopped flag nor the cursor.
C35_ContextValue ==
    \A s \in Slots :
        \* what a middleware set before next() is what is read downstream under
        \* its key, until the key is set again
        /\ \A p \in Pos(s), q \in Pos(s) :
              (SetUpstreamOf(s, p, q) /\ Ev(s, q).x = Ev(s, p).x) =>
                  Ev(s, q).val = Ev(s, p).val
        \* setting one key leaves the others alone: a middleware reads under each
        \* key the value set last for it, the handler the value set last for it
        \* before the handler was invoked
        /\ \A q \in Pos(s) :
              Ev(s, q).t = "get" =>
                  /\ Ev(s, q).val =
                        SetBefore(s, IF Ev(s, q).i >= 0 THEN q ELSE InvokedAt(s, q),
                                  Ev(s, q).x)
                  /\ Ev(s, q).gear = Ev(s, 1).g
        \* the Gear of the request stays the one of its request
        /\ log[s] # <<>> =>
              /\ ~G(GearOf(s).R).panics
              /\ G(GearOf(s).R).gear = Ev(s, 1).g
              /\ GearOf(s).R.id = Ev(s, 1).g
              /\ GearOf(s).stopped = Happened(s, "stop")
              /\ engines[TopEngine(s)].i =
                    FreshCursor(ListOf(TopEngine(s))) - Decrements(s, TopEngine(s), Len(log[s]))
        /\ \A p \in Pos(s) :
              (Ev(s, p).t = "set" /\ p < Len(log[s])) => Ev(s, p + 1).st = Ev(s, p).st

\* The outer of two middlewares set both keys before next(); the inner one read
\* one of them, then the terminal handler read the other from its request.
C35_Witness ==
    /\ Running("a")
    /\ Len(ListOf(TopEngine("a"))) = 2
    /\ \E p1 \in Pos("a"), p2 \in Pos("a"), q1 \in Pos("a"), q2 \in Pos("a") :
          /\ p1 < p2
          /\ SetUpstreamOf("a", p1, q1)
          /\ SetUpstreamOf("a", p2, q2)
          /\ Ev("a", p1).x # Ev("a", p2).x
          /\ Ev("a", p1).i = 1 /\ Ev("a", p2).i = 1
          /\ Ev("a", q1).i = 0
          /\ Ev("a", q1).x = Ev("a", p1).x
          /\ Ev("a", q2).i = 0 - 1
          /\ Ev("a", q2).x = Ev("a", p2).x
          /\ Ev("a", q2).val = Ev("a", p2).val

\* ---- requests served concurrently ----
\* The transport serves a request on each of its goroutines at the same time,
\* through the same Wrap-produced handler; the steps of the requests interleave
\* in every order.
InitConc == Built(MaxConcMw, 0, {"leaf"})

NextConc ==
    \E s \in Slots :
        \/ StartRequest(s, Cardinality(Slots))
        \/ CallNext(s, 0)
        \/ CallStop(s)
        \/ Return(s)
        \/ \E v \in PanicValues : Panic(s, v)

SpecConc == InitConc /\ [][NextConc]_vars

\* The Gear and the cursor of the request of goroutine s are what the request's
\* own events make them.
OwnState(s) ==
    LET g == Ev(s, 1).g
        e == Ev(s, 1).e
    IN  /\ gears[g].stopped = (Happened(s, "stop") \/ Happened(s, "recovered"))
        /\ engines[e].i = FreshCursor(ListOf(e)) - Advances(s, e)
        /\ getGear(gears[g].R) = g
        /\ gears[g].W = gears[g].R.id
        /\ \A k \in 1..Len(stack[s]) :
               /\ stack[s][k].g = g /\ stack[s][k].e = e
               /\ stack[s][k].k = "wrap" =>
                      gears[g].W = stack[s][k].w /\ gears[g].R.id = stack[s][k].r.id
               /\ stack[s][k].k = "handler" =>
                      gears[g].W = stack[s][k].w /\ gears[g].R = stack[s][k].r

\* C10: requests served concurrently by one Wrap-produced handler each have a
\* Gear and a cursor of their own: under every interleaving the stopped flag,
\* cursor, request and response writer of a request are those its own steps
\* made, whatever the other request did, and each request by itself observes
\* the reverse-order chain.
C10_Isolation ==
    \A s \in Slots : log[s] # <<>> =>
        /\ OwnState(s)
        /\ \A t \in Slots \ {s} : log[t] # <<>> =>
               Ev(t, 1).g # Ev(s, 1).g /\ Ev(t, 1).e # Ev(s, 1).e
        /\ (~Active(s, Ev(s, 1).e) /\ WellBehaved(s, Ev(s, 1).e))
               => Trace(s, Ev(s, 1).e) = ReverseOrder(Len(ListOf(Ev(s, 1).e)))

\* Both requests are in flight; one is stopped, the other is not and has
\* advanced its cursor beyond the first one's, after the first one's Stop().
C10_Witness ==
    /\ Running("a") /\ Running("b")
    /\ GearOf("a").stopped /\ ~GearOf("b").stopped
    /\ Len(ListOf(TopEngine("a"))) >= 2
    /\ engines[TopEngine("a")].i = 1
    /\ Happened("b", "next")
    /\ engines[TopEngine("b")].i = 0 - 1
    /\ Top("b").k = "handler"

\* What the Wrap-produced handler holds: the list and the terminal handler its
\* closure captured; every engine it makes refers to the same list.
Supplied == wrapped["top"]

\* C37: serving a request never modifies the middleware list or the terminal
\* handler held by a Wrap-produced handler: after any number of sequential or
\* concurrent requests, including stopped and panicking ones, the list
\* (elements and order) and the handler are the ones supplied to Wrap. Every
\* engine, whenever it was made, sees the list and the handler that the handler
\* holds now, and what was served at each index is the element at that index.
C37_ListUnmodified ==
    /\ \A e \in DOMAIN engines :
          /\ engines[e].middlewares = Supplied.middlewares
          /\ engines[e].handler = Supplied.handler
    /\ \A s \in Slots : \A p \in Pos(s) :
          /\ Ev(s, p).t = "enter" => Ev(s, p).x = At(Supplied.middlewares, Ev(s, p).i)
          /\ Ev(s, p).t = "H" => Ev(s, p).x = Supplied.handler

\* Two requests were served at the same time through a handler with a full
\* list and both are over: one panicked out of the handler, the other was
\* stopped and returned.
C37_Witness ==
    /\ ~Running("a") /\ ~Running("b")
    /\ log["a"] # <<>> /\ log["b"] # <<>>
    /\ Len(engines) = 2
    /\ Len(Supplied.middlewares) = MaxConcMw
    /\ outcomes = <<"panicked", "returned">>
    /\ Happened("a", "panic") /\ Happened("b", "enter")
    /\ GearOf("b").stopped
    /\ \E p \in Pos("a") : Ev("a", p).t = "enter" /\ p > 1 /\ Len(log["b"]) > 1

====
